---------------------------- MODULE Spec2Model ----------------------------
(***************************************************************************)
(* A model of file-merge: the source-resolution and merge engine           *)
(* (ConfigManager.apply and what it calls), the merge strategy registry    *)
(* and the helpers they rest on.                                           *)
(*                                                                         *)
(* Strings of the program (paths, file names, placeholders) are sequences  *)
(* of one-character strings, so that endsWith, includes, replace and the   *)
(* regular expressions of the code are computed and not assumed.           *)
(* JSON values are tagged records:                                         *)
(*   [t |-> "null"], [t |-> "num", n |-> 1], [t |-> "bool", b |-> TRUE],   *)
(*   [t |-> "str", s |-> <<"a">>], [t |-> "arr", e |-> <<...>>],           *)
(*   [t |-> "obj", f |-> [key |-> value]]   (a key absent from DOMAIN f is *)
(*   a key the object does not have).                                      *)
(***************************************************************************)
EXTENDS Integers, Sequences, FiniteSets, TLC

(***************************************************************************)
(* String primitives (String.prototype.* as the code uses them)            *)
(***************************************************************************)

\* s.substring(from - 1, to) with 1-based inclusive bounds
Sub(s, from, to) == IF from > to THEN << >> ELSE SubSeq(s, from, to)

\* s.startsWith(p)
StartsWith(s, p) == Len(p) <= Len(s) /\ SubSeq(s, 1, Len(p)) = p

\* s.endsWith(p)
EndsWith(s, p) ==
    Len(p) <= Len(s) /\ Sub(s, Len(s) - Len(p) + 1, Len(s)) = p

\* whether p occurs in s at (1-based) position i
OccursAt(s, p, i) ==
    i >= 1 /\ i + Len(p) - 1 <= Len(s) /\ Sub(s, i, i + Len(p) - 1) = p

\* s.includes(p)
Includes(s, p) == \E i \in 1..(Len(s) - Len(p) + 1) : OccursAt(s, p, i)

\* s.indexOf(p) as a 1-based position, 0 when p does not occur
RECURSIVE IndexFrom(_, _, _)
IndexFrom(s, p, i) ==
    IF i + Len(p) - 1 > Len(s) THEN 0
    ELSE IF OccursAt(s, p, i) THEN i
    ELSE IndexFrom(s, p, i + 1)

IndexOf(s, p) == IndexFrom(s, p, 1)

\* s.lastIndexOf(p) as a 1-based position, 0 when p does not occur
RECURSIVE LastIndexFrom(_, _, _)
LastIndexFrom(s, p, i) ==
    IF i < 1 THEN 0
    ELSE IF OccursAt(s, p, i) THEN i
    ELSE LastIndexFrom(s, p, i - 1)

LastIndexOf(s, p) == LastIndexFrom(s, p, Len(s) - Len(p) + 1)

\* the replacement text of s.replace(p, r) from position j of r on, with the
\* replacement patterns of String.prototype.replace expanded: $$ is "$", $&
\* the matched text, $` the text before the match and $' the text after it;
\* a string pattern has no groups, so any other "$" stands for itself
RECURSIVE ExpandReplacement(_, _, _, _, _)
ExpandReplacement(r, j, matched, before, after) ==
    IF j > Len(r) THEN << >>
    ELSE IF r[j] = "$" /\ j < Len(r) /\ r[j + 1] \in {"$", "&", "`", "'"}
    THEN (CASE r[j + 1] = "$" -> <<"$">>
            [] r[j + 1] = "&" -> matched
            [] r[j + 1] = "`" -> before
            [] r[j + 1] = "'" -> after)
            \o ExpandReplacement(r, j + 2, matched, before, after)
    ELSE <<r[j]>> \o ExpandReplacement(r, j + 1, matched, before, after)

\* s with the occurrence of p at position i replaced by r
ReplaceOccurrence(s, p, r, i) ==
    Sub(s, 1, i - 1)
        \o ExpandReplacement(r, 1, p, Sub(s, 1, i - 1), Sub(s, i + Len(p), Len(s)))
        \o Sub(s, i + Len(p), Len(s))

\* s.replace(p, r) with a string pattern: the first occurrence only
ReplaceFirst(s, p, r) ==
    IF IndexOf(s, p) = 0 THEN s ELSE ReplaceOccurrence(s, p, r, IndexOf(s, p))

UpperCase ==
    <<"A", "B", "C", "D", "E", "F", "G", "H", "I", "J", "K", "L", "M",
      "N", "O", "P", "Q", "R", "S", "T", "U", "V", "W", "X", "Y", "Z">>

LowerCase ==
    <<"a", "b", "c", "d", "e", "f", "g", "h", "i", "j", "k", "l", "m",
      "n", "o", "p", "q", "r", "s", "t", "u", "v", "w", "x", "y", "z">>

Digits == <<"0", "1", "2", "3", "4", "5", "6", "7", "8", "9">>

Range(q) == {q[i] : i \in DOMAIN q}

LowerChar(c) ==
    IF c \in Range(UpperCase)
    THEN LowerCase[CHOOSE i \in DOMAIN UpperCase : UpperCase[i] = c]
    ELSE c

\* s.toLowerCase()
ToLowerCase(s) == [i \in DOMAIN s |-> LowerChar(s[i])]

\* the class \w of the regular expressions
IsWordChar(c) ==
    c \in Range(UpperCase) \cup Range(LowerCase) \cup Range(Digits) \cup {"_"}

(***************************************************************************)
(* node:path, for the POSIX paths of the model (no "." or ".." segment and *)
(* no doubled separator occurs in them, so normalisation changes nothing)  *)
(***************************************************************************)

\* path.join(a, b)
PathJoin(a, b) ==
    IF b = << >> THEN a
    ELSE IF a = << >> THEN b
    ELSE a \o <<"/">> \o b

\* path.dirname(p)
PathDirname(p) ==
    LET i == LastIndexOf(p, <<"/">>)
    IN  IF i = 0 THEN <<".">>
        ELSE IF i = 1 THEN <<"/">>
        ELSE Sub(p, 1, i - 1)

\* path.basename(p)
PathBasename(p) ==
    LET i == LastIndexOf(p, <<"/">>)
    IN  Sub(p, i + 1, Len(p))

\* path.extname(p): from the last "." of the base name, "" when there is
\* none or when it is the base name's first character
PathExtname(p) ==
    LET b == PathBasename(p)
        i == LastIndexOf(b, <<".">>)
    IN  IF i <= 1 THEN << >> ELSE Sub(b, i, Len(b))

\* path.relative(from, to) for a path `to` that lies under `from`
PathRelative(from, to) ==
    IF to = from THEN << >>
    ELSE IF StartsWith(to, from \o <<"/">>)
    THEN Sub(to, Len(from) + 2, Len(to))
    ELSE to

(***************************************************************************)
(* TemplateVariableResolver                                                *)
(***************************************************************************)

\* the end position of a match of /\{\{(\w+)\}\}/ starting at i, 0 if none.
\* \w+ is greedy and "}" is no word character, so the name is the longest
\* run of word characters after "{{".
RECURSIVE WordRunEnd(_, _)
WordRunEnd(s, i) ==
    IF i <= Len(s) /\ IsWordChar(s[i]) THEN WordRunEnd(s, i + 1) ELSE i - 1

MatchEnd(s, i) ==
    IF ~OccursAt(s, <<"{", "{">>, i) THEN 0
    ELSE LET e == WordRunEnd(s, i + 2)
         IN  IF e >= i + 2 /\ OccursAt(s, <<"}", "}">>, e + 1)
             THEN e + 2 ELSE 0

\* Array.from(template.matchAll(pattern)): the matches left to right, each
\* as [text |-> match[0], name |-> match[1]]; MatchAt continues the scan at
\* i, where the expression matches up to e (0: it does not match at i)
RECURSIVE MatchAllFrom(_, _)
RECURSIVE MatchAt(_, _, _)
MatchAt(s, i, e) ==
    IF e = 0 THEN MatchAllFrom(s, i + 1)
    ELSE <<[text |-> Sub(s, i, e), name |-> Sub(s, i + 2, e - 2)]>>
            \o MatchAllFrom(s, e + 1)

MatchAllFrom(s, i) ==
    IF i > Len(s) THEN << >> ELSE MatchAt(s, i, MatchEnd(s, i))

MatchAll(s) == MatchAllFrom(s, 1)

\* TemplateVariableResolver.hasVariables
hasVariables(template) == MatchAll(template) # << >>

\* a loop of resolve that pushes a missing name at each of its occurrences
RECURSIVE ResolveLoop_noDedupe(_, _, _)
ResolveLoop_noDedupe(matches, environ, st) ==
    IF matches = << >> THEN st
    ELSE ResolveLoop_noDedupe(Tail(matches), environ,
            IF Head(matches).name \notin DOMAIN environ
            THEN [st EXCEPT !.missingVars = Append(@, Head(matches).name)]
            ELSE [st EXCEPT !.result =
                    ReplaceFirst(@, Head(matches).text, environ[Head(matches).name])])

\* the loop of resolve over the matches: st is [result, missingVars]
RECURSIVE ResolveLoop(_, _, _)
ResolveLoop(matches, environ, st) ==
    IF matches = << >> THEN st
    ELSE LET m == Head(matches)
             next ==
                IF m.name \notin DOMAIN environ
                THEN [st EXCEPT !.missingVars =
                        IF m.name \in Range(st.missingVars)
                        THEN st.missingVars
                        ELSE Append(st.missingVars, m.name)]
                ELSE [st EXCEPT !.result =
                        ReplaceFirst(st.result, m.text, environ[m.name])]
         IN  ResolveLoop(Tail(matches), environ, next)

\* the end of resolve: it throws when a variable is missing
resolveOutcome(st) ==
    IF Len(st.missingVars) > 0
    THEN [ok |-> FALSE, missing |-> st.missingVars]
    ELSE [ok |-> TRUE, value |-> st.result]

\* TemplateVariableResolver.resolve under the environment `environ` (a
\* function from the names that are set to their values):
\* [ok |-> TRUE, value |-> text] or [ok |-> FALSE, missing |-> names]
resolve(template, environ) ==
    resolveOutcome(ResolveLoop(MatchAll(template), environ,
                               [result |-> template, missingVars |-> << >>]))

(***************************************************************************)
(* JSON values                                                             *)
(***************************************************************************)

JNull == [t |-> "null"]
JNum(n) == [t |-> "num", n |-> n]
JBool(b) == [t |-> "bool", b |-> b]
JStr(s) == [t |-> "str", s |-> s]
JArr(e) == [t |-> "arr", e |-> e]
JObj(f) == [t |-> "obj", f |-> f]
EmptyObj == JObj(<< >>)

\* what a throw of the merge is modelled as
MergeError == [t |-> "error"]

IsObj(v) == v.t = "obj"
IsArr(v) == v.t = "arr"
\* typeof v === 'object' (null included)
TypeofObject(v) == v.t \in {"obj", "arr", "null"}
IsPrimitive(v) == v.t \in {"null", "num", "bool", "str"}

\* JavaScript truthiness
Truthy(v) ==
    CASE v.t = "null" -> FALSE
      [] v.t = "num"  -> v.n # 0
      [] v.t = "bool" -> v.b
      [] v.t = "str"  -> Len(v.s) > 0
      [] OTHER        -> TRUE

Has(o, k) == k \in DOMAIN o.f

\* o with key k set to v / without key k
Put(o, k, v) == JObj([x \in DOMAIN o.f \cup {k} |-> IF x = k THEN v ELSE o.f[x]])
Del(o, k) == JObj([x \in DOMAIN o.f \ {k} |-> o.f[x]])

\* Array.prototype.includes: SameValueZero, so a primitive is found by value
\* and an object or array only by reference; the items of different parsed
\* sources are never the same reference.
ArrIncludes(e, item) == IsPrimitive(item) /\ \E i \in DOMAIN e : e[i] = item

\* a merge of arrays that puts each new item in front
RECURSIVE PushUnique_front(_, _)
PushUnique_front(e, items) ==
    IF items = << >> THEN e
    ELSE PushUnique_front(IF ArrIncludes(e, Head(items)) THEN e
                          ELSE <<Head(items)>> \o e,
                          Tail(items))

\* push the items of `items` that e does not include yet, in order
RECURSIVE PushUnique(_, _)
PushUnique(e, items) ==
    IF items = << >> THEN e
    ELSE PushUnique(IF ArrIncludes(e, Head(items)) THEN e
                    ELSE Append(e, Head(items)),
                    Tail(items))

\* the property names of the items of an array or of the characters of a
\* string
IndexKeys == <<"0", "1", "2", "3", "4", "5">>

\* { ...v }: the own enumerable properties of v; for-in and Object.entries
\* visit the same properties
Spread(v) ==
    CASE IsObj(v) -> v
      [] IsArr(v) -> JObj([k \in {IndexKeys[i] : i \in DOMAIN v.e} |->
                            v.e[CHOOSE i \in DOMAIN v.e : IndexKeys[i] = k]])
      [] v.t = "str" -> JObj([k \in {IndexKeys[i] : i \in DOMAIN v.s} |->
                            JStr(<<v.s[CHOOSE i \in DOMAIN v.s : IndexKeys[i] = k]>>)])
      [] OTHER -> EmptyObj

(***************************************************************************)
(* DeepMergeStrategy                                                       *)
(***************************************************************************)

\* The for-in loop of deepMerge handles each key of source on its own, so
\* the outcome per key is computed by deepMergeKey and put together by
\* deepMerge. The outcome of a key is its new value, "absent" when the key
\* is deleted, or MergeError when the code throws.
Absent == [t |-> "absent"]

RECURSIVE deepMerge(_, _)
\* a null policy that exempts arrays: a null over an array deletes it
deepMergeKey_arraysDeleted(target, source, key) ==
    IF source.f[key].t = "null"
    THEN IF Has(target, key) /\ target.f[key].t \notin {"null", "arr"}
         THEN MergeError ELSE Absent
    ELSE IF IsArr(source.f[key])
    THEN JArr(PushUnique(IF Has(target, key) /\ IsArr(target.f[key])
                         THEN target.f[key].e ELSE << >>,
                         source.f[key].e))
    ELSE IF IsObj(source.f[key])
    THEN deepMerge(IF Has(target, key) /\ IsObj(target.f[key])
                   THEN target.f[key] ELSE EmptyObj,
                   source.f[key])
    ELSE source.f[key]

deepMergeKey(target, source, key) ==
    LET sv == source.f[key]
        tHas == Has(target, key)
    IN  IF sv.t = "null"
        THEN \* null deletes the key, but throws when it holds content
             IF tHas /\ target.f[key].t # "null" THEN MergeError ELSE Absent
        ELSE IF IsArr(sv)
        THEN LET base == IF tHas /\ IsArr(target.f[key])
                         THEN target.f[key].e ELSE << >>
             IN  JArr(PushUnique(base, sv.e))
        ELSE IF IsObj(sv)
        THEN LET base == IF tHas /\ IsObj(target.f[key])
                         THEN target.f[key] ELSE EmptyObj
             IN  deepMerge(base, sv)
        ELSE sv

\* DeepMergeStrategy.deepMerge(target, source): the target after the call,
\* or MergeError
deepMerge(target, source) ==
    LET out == [k \in DOMAIN source.f |-> deepMergeKey(target, source, k)]
        keep == {k \in DOMAIN target.f \cup DOMAIN source.f :
                    IF k \in DOMAIN source.f THEN out[k].t \notin {"absent", "error"}
                    ELSE TRUE}
    IN  IF \E k \in DOMAIN source.f : out[k] = MergeError
        THEN MergeError
        ELSE JObj([k \in keep |->
                    IF k \in DOMAIN source.f THEN out[k] ELSE target.f[k]])

\* DeepMergeStrategy.merge(sources): the for-in loop of deepMerge visits the
\* keys of an object source, the indices of an array or string source, and
\* nothing for any other source
RECURSIVE deepMergeFold(_, _)
deepMergeFold(result, sources) ==
    IF sources = << >> \/ result = MergeError THEN result
    ELSE deepMergeFold(deepMerge(result, Spread(Head(sources))), Tail(sources))

DeepMergeStrategy_merge(sources) == deepMergeFold(EmptyObj, sources)

(***************************************************************************)
(* TsConfigMergeStrategy                                                   *)
(***************************************************************************)

\* TsConfigMergeStrategy.deepMerge(target, source): the target after the
\* call, or MergeError. `source` is an object or null (for-in over null
\* visits nothing). A key whose source value is an object or null is merged
\* into target[key], which is first set to {} when it is falsy; setting a
\* property on a primitive target throws in strict mode, and a property set
\* on an array target does not show in the written JSON.
RECURSIVE tsDeepMerge(_, _)
tsDeepMergeKey(target, source, key) ==
    LET sv == source.f[key]
    IN  IF TypeofObject(sv) /\ ~IsArr(sv)
        THEN LET base == IF Has(target, key) /\ Truthy(target.f[key])
                         THEN target.f[key] ELSE EmptyObj
             IN  tsDeepMerge(base, sv)
        ELSE sv

tsDeepMerge(target, source) ==
    IF ~IsObj(source) \/ DOMAIN source.f = {} THEN target
    ELSE IF IsArr(target) THEN target
    ELSE IF ~IsObj(target) THEN MergeError
    ELSE LET out == [k \in DOMAIN source.f |-> tsDeepMergeKey(target, source, k)]
         IN  IF \E k \in DOMAIN source.f : out[k] = MergeError
             THEN MergeError
             ELSE JObj([k \in DOMAIN target.f \cup DOMAIN source.f |->
                        IF k \in DOMAIN source.f THEN out[k] ELSE target.f[k]])

TsArrayKeys == <<"include", "exclude", "files">>
TsKnownKeys == {"compilerOptions", "include", "exclude", "files", "extends"}

\* the items [...x] spreads: those of an array, the characters of a string
SpreadItems(v) ==
    IF IsArr(v) THEN v.e
    ELSE [i \in DOMAIN v.s |-> JStr(<<v.s[i]>>)]

\* one pass of the loop over include / exclude / files
RECURSIVE tsMergeArrays(_, _, _)
tsMergeArrays(result, source, keys) ==
    IF keys = << >> \/ result = MergeError THEN result
    ELSE LET key == Head(keys)
             next ==
                IF Has(source, key) /\ Truthy(source.f[key])
                THEN LET cur == IF Has(result, key) /\ Truthy(result.f[key])
                                THEN result.f[key] ELSE JArr(<< >>)
                     IN  IF source.f[key].t \in {"arr", "str"}
                            /\ cur.t \in {"arr", "str"}
                         THEN Put(result, key,
                                  JArr(PushUnique(<< >>,
                                        SpreadItems(cur) \o SpreadItems(source.f[key]))))
                         ELSE MergeError    \* spread of a non-iterable
                ELSE result
         IN  tsMergeArrays(next, source, Tail(keys))

\* the body of the loop of TsConfigMergeStrategy.merge for one source
tsMergeSource(result, source) ==
    LET r1 == IF Has(source, "compilerOptions") /\ Truthy(source.f["compilerOptions"])
              THEN LET cur == IF Has(result, "compilerOptions")
                                 /\ Truthy(result.f["compilerOptions"])
                              THEN result.f["compilerOptions"] ELSE EmptyObj
                       co == tsDeepMerge(cur, source.f["compilerOptions"])
                   IN  IF co = MergeError THEN MergeError
                       ELSE Put(result, "compilerOptions", co)
              ELSE result
        r2 == tsMergeArrays(r1, source, TsArrayKeys)
        r3 == IF r2 # MergeError /\ Has(source, "extends") /\ Truthy(source.f["extends"])
              THEN Put(r2, "extends", source.f["extends"])
              ELSE r2
        other == DOMAIN source.f \ TsKnownKeys
    IN  IF r3 = MergeError THEN MergeError
        ELSE JObj([k \in DOMAIN r3.f \cup other |->
                    IF k \in other THEN source.f[k] ELSE r3.f[k]])

RECURSIVE tsMergeFold(_, _)
tsMergeFold(result, sources) ==
    IF sources = << >> \/ result = MergeError THEN result
    ELSE tsMergeFold(tsMergeSource(result, Head(sources)), Tail(sources))

\* TsConfigMergeStrategy.merge(sources) for object sources
TsConfigMergeStrategy_merge(sources) == tsMergeFold(EmptyObj, sources)

(***************************************************************************)
(* ReplaceStrategy                                                         *)
(***************************************************************************)

\* ReplaceStrategy.merge: the last source
ReplaceStrategy_merge(sources) == sources[Len(sources)]

(***************************************************************************)
(* The strategy registry and getStrategy                                   *)
(***************************************************************************)

\* the registry `strategies`: the property key as the code spells it, and
\* the strategy (named here by its `name` field)
strategies ==
    <<[key |-> <<"d", "e", "e", "p", "-", "m", "e", "r", "g", "e">>,
       name |-> "deep-merge"],
      [key |-> <<"y", "a", "m", "l", "-", "m", "e", "r", "g", "e">>,
       name |-> "yaml-merge"],
      [key |-> <<"t", "o", "m", "l", "-", "m", "e", "r", "g", "e">>,
       name |-> "toml-merge"],
      [key |-> <<"a", "p", "p", "e", "n", "d", "-", "l", "i", "n", "e", "s">>,
       name |-> "append-lines"],
      [key |-> <<"r", "e", "p", "l", "a", "c", "e">>,
       name |-> "replace"],
      [key |-> <<"d", "o", "c", "k", "e", "r", "-", "c", "o", "m", "p", "o", "s", "e">>,
       name |-> "docker-compose"],
      [key |-> <<"t", "s", "c", "o", "n", "f", "i", "g">>,
       name |-> "tsconfig"],
      [key |-> <<"v", "s", "c", "o", "d", "e", "-", "t", "a", "s", "k", "s">>,
       name |-> "vscode-tasks"],
      [key |-> <<"g", "i", "t", "l", "a", "b", "-", "c", "i">>,
       name |-> "gitlab-ci"],
      [key |-> <<"p", "n", "p", "m", "-", "w", "o", "r", "k", "s", "p", "a", "c", "e">>,
       name |-> "pnpm-workspace"]>>

\* strategies[strategyName] for a string strategyName: the strategy, or
\* "undefined"
Lookup(key) ==
    IF \E i \in DOMAIN strategies : strategies[i].key = key
    THEN strategies[CHOOSE i \in DOMAIN strategies : strategies[i].key = key].name
    ELSE "undefined"

\* the string literals of getStrategy
TSCONFIG_JSON == <<"t", "s", "c", "o", "n", "f", "i", "g", ".", "j", "s", "o", "n">>
TSCONFIG_DOT == <<"t", "s", "c", "o", "n", "f", "i", "g", ".">>
DOCKER_COMPOSE == <<"d", "o", "c", "k", "e", "r", "-", "c", "o", "m", "p", "o", "s", "e">>
GITLAB_CI == <<"g", "i", "t", "l", "a", "b", "-", "c", "i">>
DOT_GITLAB_CI_YML == <<".", "g", "i", "t", "l", "a", "b", "-", "c", "i", ".", "y", "m", "l">>
DOT_GITIGNORE == <<".", "g", "i", "t", "i", "g", "n", "o", "r", "e">>
DOT_DOCKERIGNORE == <<".", "d", "o", "c", "k", "e", "r", "i", "g", "n", "o", "r", "e">>
DOT_EDITORCONFIG == <<".", "e", "d", "i", "t", "o", "r", "c", "o", "n", "f", "i", "g">>
DOT_TOML == <<".", "t", "o", "m", "l">>
PNPM_WORKSPACE_YAML == <<"p", "n", "p", "m", "-", "w", "o", "r", "k", "s", "p", "a", "c", "e", ".", "y", "a", "m", "l">>
PNPM_WORKSPACE_YML == <<"p", "n", "p", "m", "-", "w", "o", "r", "k", "s", "p", "a", "c", "e", ".", "y", "m", "l">>
DOT_YAML == <<".", "y", "a", "m", "l">>
DOT_YML == <<".", "y", "m", "l">>
DOT_JSON == <<".", "j", "s", "o", "n">>

\* the value `undefined`, for an optional field that is not set
Undefined == [t |-> "undefined"]

\* the auto-detection chain of getStrategy on fileName = filePath.toLowerCase()
autoDetect(fileName) ==
    IF EndsWith(fileName, TSCONFIG_JSON) \/ Includes(fileName, TSCONFIG_DOT)
    THEN "tsconfig"
    ELSE IF Includes(fileName, DOCKER_COMPOSE) THEN "docker-compose"
    ELSE IF Includes(fileName, GITLAB_CI) \/ fileName = DOT_GITLAB_CI_YML
    THEN "gitlab-ci"
    ELSE IF EndsWith(fileName, DOT_GITIGNORE) \/ EndsWith(fileName, DOT_DOCKERIGNORE)
    THEN "append-lines"
    ELSE IF EndsWith(fileName, DOT_EDITORCONFIG) THEN "replace"
    ELSE IF EndsWith(fileName, DOT_TOML) THEN "toml-merge"
    ELSE IF fileName = PNPM_WORKSPACE_YAML \/ fileName = PNPM_WORKSPACE_YML
    THEN "pnpm-workspace"
    ELSE IF EndsWith(fileName, DOT_YAML) \/ EndsWith(fileName, DOT_YML)
    THEN "yaml-merge"
    ELSE IF EndsWith(fileName, DOT_JSON) THEN "deep-merge"
    ELSE "deep-merge"

\* getStrategy(strategyName, filePath): strategyName is Undefined or a JSON
\* value; a name that is truthy and registered wins, else auto-detection
getStrategy(strategyName, filePath) ==
    IF strategyName # Undefined /\ Truthy(strategyName)
       /\ strategyName.t = "str" /\ Lookup(strategyName.s) # "undefined"
    THEN Lookup(strategyName.s)
    ELSE autoDetect(ToLowerCase(filePath))

(***************************************************************************)
(* The project tree of the model                                           *)
(***************************************************************************)

projectRoot == <<"/", "p">>
TEMPLATES_DIR == <<"a", "t", "o", "m", "-", "f", "r", "a", "m", "e", "w", "o", "r", "k", "/", "c", "o", "n", "f", "i", "g", "-", "t", "e", "m", "p", "l", "a", "t", "e", "s">>
templatesDir == PathJoin(projectRoot, TEMPLATES_DIR)

\* the source files that may exist
TPL_A == PathJoin(templatesDir, <<"_", "_", "a", ".", "j", "s", "o", "n">>)
OV_A == PathJoin(projectRoot, <<"a", ".", "o", "v", "e", "r", "r", "i", "d", "e", "s", ".", "j", "s", "o", "n">>)
FRAG_X == PathJoin(projectRoot, <<"p", "a", "c", "k", "a", "g", "e", "s", "/", "x", "/", "c", ".", "f", "r", "a", "g", "m", "e", "n", "t", ".", "j", "s", "o", "n">>)
FRAG_Y == PathJoin(projectRoot, <<"p", "a", "c", "k", "a", "g", "e", "s", "/", "y", "/", "c", ".", "f", "r", "a", "g", "m", "e", "n", "t", ".", "j", "s", "o", "n">>)

\* the target files they name
REL_A == <<"a", ".", "j", "s", "o", "n">>
REL_B == <<"b", ".", "y", "m", "l">>
T_A == PathJoin(projectRoot, REL_A)
T_B == PathJoin(projectRoot, REL_B)

SourcePaths == {TPL_A, OV_A, FRAG_X, FRAG_Y}
TargetPaths == {T_A, T_B}
Paths == SourcePaths \cup TargetPaths

\* the order in which a directory walk (glob) lists the files
ListingOrder == <<TPL_A, FRAG_X, FRAG_Y, OV_A, T_A, T_B>>

\* the environment of the process: V is set, W is not
VAR_V == <<"V">>
ProcessEnv == (VAR_V :> <<"b">>)
Environments == {ProcessEnv}

\* the _targetPath texts with a placeholder
TP_V == <<"{", "{", "V", "}", "}", ".", "y", "m", "l">>
TP_W == <<"{", "{", "W", "}", "}", ".", "y", "m", "l">>

(***************************************************************************)
(* The path computations below are looked up where their arguments are     *)
(* paths and texts of the model: each table holds the results of the       *)
(* operator it names, computed once.                                       *)
(***************************************************************************)

Memo(table, key, value) == IF key \in DOMAIN table THEN table[key] ELSE value

dirnames == [p \in Paths |-> PathDirname(p)]
extnames == [p \in Paths |-> PathExtname(p)]
relativeLinks == [k \in Paths \X Paths |-> PathRelative(PathDirname(k[1]), k[2])]
DeclaredNames ==
    {Undefined, JStr(<<"r", "e", "p", "l", "a", "c", "e">>),
     JStr(<<"b", "o", "g", "u", "s">>)}
strategyChoices == [k \in DeclaredNames \X Paths |-> getStrategy(k[1], k[2])]
ResolvedTexts == {REL_A, REL_B, TP_V, TP_W, PathRelative(templatesDir, TPL_A)}
resolved == [k \in ResolvedTexts \X Environments |-> resolve(k[1], k[2])]

(***************************************************************************)
(* The file system: every path holds nothing, a directory, a regular file  *)
(* with its parsed content, or a symbolic link with its link text          *)
(***************************************************************************)

NoEntry == [kind |-> "none"]
DirEntry == [kind |-> "dir"]
FileEntry(content) == [kind |-> "file", content |-> content]
LinkEntry(to) == [kind |-> "link", to |-> to]

\* path.resolve(path.dirname(p), readlink(p))
LinkTarget(files, p) ==
    PathJoin(Memo(dirnames, p, PathDirname(p)), files[p].to)

\* the path an open() of p ends at: p itself, or where its link points
Follow(files, p) ==
    IF files[p].kind = "link" THEN LinkTarget(files, p) ELSE p

\* Results of file system calls: [ok, code, fs], fs being the file system
\* after the call (also after a failing one).
Ok(files) == [ok |-> TRUE, code |-> "", fs |-> files]
Fail(code, files) == [ok |-> FALSE, code |-> code, fs |-> files]

\* fs.unlink
unlink(files, p) ==
    IF files[p].kind = "none" THEN Fail("ENOENT", files)
    ELSE IF files[p].kind = "dir" THEN Fail("EISDIR", files)
    ELSE Ok([files EXCEPT ![p] = NoEntry])

\* fs.symlink(text, p)
symlink(files, text, p) ==
    IF files[p].kind # "none" THEN Fail("EEXIST", files)
    ELSE Ok([files EXCEPT ![p] = LinkEntry(text)])

\* fs.writeFile(p, data): follows a symbolic link at p
writeFile(files, p, data) ==
    LET q == Follow(files, p)
    IN  IF q \notin Paths THEN Fail("ENOENT", files)
        ELSE IF files[q].kind = "dir" THEN Fail("EISDIR", files)
        ELSE Ok([files EXCEPT ![q] = FileEntry(data)])

\* fs.copyFile(src, dst): reads src and writes dst, both through links;
\* copying a file onto itself changes nothing
copyFileSys(files, src, dst) ==
    LET from == Follow(files, src)
        to == Follow(files, dst)
    IN  IF from \notin Paths \/ files[from].kind = "none" THEN Fail("ENOENT", files)
        ELSE IF files[from].kind = "dir" THEN Fail("EISDIR", files)
        ELSE IF to \notin Paths THEN Fail("ENOENT", files)
        ELSE IF to = from THEN Ok(files)
        ELSE IF files[to].kind = "dir" THEN Fail("EISDIR", files)
        ELSE Ok([files EXCEPT ![to] = FileEntry(files[from].content)])

(***************************************************************************)
(* SymlinkManager                                                          *)
(***************************************************************************)

\* SymlinkManager.createSymlink(sourcePath, targetPath). An existing link or
\* regular file is unlinked first. For a directory the code throws an Error
\* without a `code` property inside its own try block, which its catch then
\* swallows ("code" in error is false), so fs.symlink runs and fails EEXIST.
createSymlink(files, sourcePath, targetPath) ==
    LET kind == files[targetPath].kind
        cleared == IF kind \in {"link", "file"}
                   THEN unlink(files, targetPath)
                   ELSE Ok(files)
        relPath == Memo(relativeLinks, <<targetPath, sourcePath>>,
                        PathRelative(PathDirname(targetPath), sourcePath))
    IN  IF ~cleared.ok THEN cleared
        ELSE symlink(cleared.fs, relPath, targetPath)

\* SymlinkManager.copyFile(sourcePath, targetPath)
copyFile(files, sourcePath, targetPath) ==
    copyFileSys(files, sourcePath, targetPath)

\* SymlinkManager.remove(targetPath): ENOENT is swallowed
remove(files, targetPath) ==
    LET r == unlink(files, targetPath)
    IN  IF ~r.ok /\ r.code = "ENOENT" THEN Ok(files) ELSE r

TEMPLATE_PRIORITY == 0
DEFAULT_FRAGMENT_PRIORITY == 100
OVERRIDE_PRIORITY == 1000

(***************************************************************************)
(* Discovery                                                               *)
(***************************************************************************)

\* the files a glob with nodir lists, in listing order
RECURSIVE FilesIn(_, _)
FilesIn(files, order) ==
    IF order = << >> THEN << >>
    ELSE (IF files[Head(order)].kind = "file" THEN <<Head(order)>> ELSE << >>)
            \o FilesIn(files, Tail(order))

DUNDER == <<"_", "_">>
DOT_FRAGMENT_DOT == <<".", "f", "r", "a", "g", "m", "e", "n", "t", ".">>
DOT_OVERRIDES_DOT == <<".", "o", "v", "e", "r", "r", "i", "d", "e", "s", ".">>
SLASH == <<"/">>
DOT == <<".">>
IgnoredDirs == {<<"/", "n", "o", "d", "e", "_", "m", "o", "d", "u", "l", "e", "s", "/">>, <<"/", "d", "i", "s", "t", "/">>, <<"/", ".", "g", "i", "t", "/">>}
FRAMEWORK_DIR == <<"/", "a", "t", "o", "m", "-", "f", "r", "a", "m", "e", "w", "o", "r", "k", "/">>
FRAMEWORK_TEMPLATES_DIR == <<"/", "a", "t", "o", "m", "-", "f", "r", "a", "m", "e", "w", "o", "r", "k", "/", "t", "e", "m", "p", "l", "a", "t", "e", "s", "/">>
FRAMEWORK_MODULES == <<"a", "t", "o", "m", "-", "f", "r", "a", "m", "e", "w", "o", "r", "k", "/", "m", "o", "d", "u", "l", "e", "s", "/">>
FragmentRoots == {<<"a", "t", "o", "m", "-", "f", "r", "a", "m", "e", "w", "o", "r", "k">>, <<"p", "a", "c", "k", "a", "g", "e", "s">>, <<"a", "p", "p", "s">>, <<"d", "e", "p", "l", "o", "y", "m", "e", "n", "t">>}

\* glob(<templatesDir>/**/__*)
MatchesTemplateGlob(p) ==
    StartsWith(p, templatesDir \o SLASH) /\ StartsWith(PathBasename(p), DUNDER)

\* glob over the five searchLocations of discoverFragments, with its ignores
MatchesFragmentGlob(p) ==
    /\ Includes(PathBasename(p), DOT_FRAGMENT_DOT)
    /\ \/ PathDirname(p) = projectRoot
       \/ \E d \in FragmentRoots :
            StartsWith(p, PathJoin(projectRoot, d) \o SLASH)
    /\ \A d \in IgnoredDirs \cup {FRAMEWORK_TEMPLATES_DIR} : ~Includes(p, d)

\* glob(<projectRoot>/**/*.overrides.*), with its ignores; the option `dot`
\* is not set, so neither ** nor the leading * matches a name that begins
\* with "."
MatchesOverrideGlob(p) ==
    /\ StartsWith(p, projectRoot \o SLASH)
    /\ Includes(PathBasename(p), DOT_OVERRIDES_DOT)
    /\ ~Includes(Sub(p, Len(projectRoot) + 1, Len(p)), SLASH \o DOT)
    /\ \A d \in IgnoredDirs \cup {FRAMEWORK_DIR} : ~Includes(p, d)

templateGlob == [p \in Paths |-> MatchesTemplateGlob(p)]
fragmentGlob == [p \in Paths |-> MatchesFragmentGlob(p)]
overrideGlob == [p \in Paths |-> MatchesOverrideGlob(p)]
relativeToTemplates == [p \in Paths |-> PathRelative(templatesDir, p)]
relativeDirs == [p \in Paths |-> PathDirname(PathRelative(projectRoot, p))]
inFrameworkModules == [p \in Paths |-> Includes(p, FRAMEWORK_MODULES)]

\* templateVariableResolver.resolve(text) under the environment
resolveText(text, environ) ==
    Memo(resolved, <<text, environ>>, resolve(text, environ))

\* what discoverTemplates pushes for the template file tp whose relative
\* path resolved to r: nothing when the resolution threw (the template is
\* skipped), nothing for a JSON template that parsed to text
templateOf(files, tp, r) ==
    IF ~r.ok \/ files[tp].content.t = "str" THEN << >>
    ELSE <<[type |-> "template", path |-> tp,
            content |-> files[tp].content, metadata |-> Undefined,
            priority |-> TEMPLATE_PRIORITY, resolvedRelativePath |-> r.value]>>

\* the loop of TemplateDiscovery.discoverTemplates over the files listed
RECURSIVE discoverTemplatesIn(_, _, _)
discoverTemplatesIn(files, environ, paths) ==
    IF paths = << >> THEN << >>
    ELSE (IF Memo(templateGlob, Head(paths), MatchesTemplateGlob(Head(paths)))
          THEN templateOf(files, Head(paths),
                          resolveText(Memo(relativeToTemplates, Head(paths),
                                           PathRelative(templatesDir, Head(paths))),
                                      environ))
          ELSE << >>)
            \o discoverTemplatesIn(files, environ, Tail(paths))

\* TemplateDiscovery.discoverTemplates
discoverTemplates(files, environ) ==
    discoverTemplatesIn(files, environ, FilesIn(files, ListingOrder))

\* the reserved keys: the keys of the model that start with "_"
UnderscoreKeys ==
    {"_targetPath", "_mergeStrategy", "_priority", "_conditions", "_copy",
     "_activeOnly"}

Field(o, k) == IF Has(o, k) THEN o.f[k] ELSE Undefined

\* FragmentDiscovery.extractMetadata
extractMetadata(content) ==
    [_targetPath |-> Field(content, "_targetPath"),
     _mergeStrategy |-> Field(content, "_mergeStrategy"),
     _priority |-> Field(content, "_priority"),
     _conditions |-> Field(content, "_conditions"),
     _copy |-> Field(content, "_copy"),
     _activeOnly |-> Field(content, "_activeOnly")]

\* FragmentDiscovery.removeMetadataProperties
removeMetadataProperties(content) ==
    IF ~IsObj(content) THEN content
    ELSE JObj([k \in DOMAIN content.f \ UnderscoreKeys |-> content.f[k]])

\* the resolution of one _targetPath entry: a string is resolved
resolveItem(item, environ) ==
    IF item.t = "str" THEN resolveText(item.s, environ) ELSE [ok |-> FALSE]

\* the resolved _targetPath of a string: the resolution r of its text
resolvedString(r) ==
    IF r.ok THEN [ok |-> TRUE, value |-> JStr(r.value)] ELSE [ok |-> FALSE]

\* the resolved _targetPath of a list: the resolutions rs of its items
resolvedList(rs) ==
    IF \E i \in DOMAIN rs : ~rs[i].ok THEN [ok |-> FALSE]
    ELSE [ok |-> TRUE, value |-> JArr([i \in DOMAIN rs |-> JStr(rs[i].value)])]

\* the resolution of _targetPath in loadFragment: a string is resolved, a
\* list is resolved item by item, and the first failure is thrown
resolveTargetPath(tp, environ) ==
    IF tp.t = "str" THEN resolvedString(resolveItem(tp, environ))
    ELSE IF tp.t = "arr"
    THEN resolvedList([i \in DOMAIN tp.e |-> resolveItem(tp.e[i], environ)])
    ELSE [ok |-> TRUE, value |-> tp]

\* the end of loadFragment, r being the resolution of _targetPath
loadedFragment(filePath, parsed, metadata, r) ==
    IF ~r.ok THEN [status |-> "throw"]
    ELSE [status |-> "ok",
          fragment |->
            [path |-> filePath,
             content |-> removeMetadataProperties(parsed),
             metadata |-> [metadata EXCEPT !._targetPath = r.value],
             relativeDir |->
                Memo(relativeDirs, filePath,
                     PathDirname(PathRelative(projectRoot, filePath)))]]

\* loadFragment once the file is parsed and its metadata extracted
loadParsed(filePath, parsed, metadata, environ) ==
    IF metadata._targetPath = Undefined \/ ~Truthy(metadata._targetPath)
    THEN [status |-> "null"]
    ELSE loadedFragment(filePath, parsed, metadata,
                        resolveTargetPath(metadata._targetPath, environ))

\* FragmentDiscovery.loadFragment for a JSON fragment file:
\* [status |-> "ok", fragment |-> ...], [status |-> "null"] when the fragment
\* is rejected, [status |-> "throw"] when loadFragment throws
loadFragment(files, environ, filePath) ==
    IF ~Truthy(files[filePath].content) THEN [status |-> "null"]
    ELSE IF ~IsObj(files[filePath].content) THEN [status |-> "throw"]
    ELSE loadParsed(filePath, files[filePath].content,
                    extractMetadata(files[filePath].content), environ)

\* the try/catch of discoverFragments around loadFragment: what it throws
\* is logged and the loop goes on with the next file
afterLoad(found, filePath, got) ==
    IF got.status = "ok"
    THEN [found EXCEPT !.fragments = Append(@, got.fragment)]
    ELSE IF got.status = "throw"
    THEN [found EXCEPT !.thrown = Append(@, filePath)]
    ELSE found

\* the loop of FragmentDiscovery.discoverFragments over the files listed:
\* [fragments |-> the list returned, thrown |-> the files whose load threw]
RECURSIVE discoverFragmentsIn(_, _, _, _)
discoverFragmentsIn(found, files, environ, paths) ==
    IF paths = << >> THEN found
    ELSE discoverFragmentsIn(
            IF Memo(fragmentGlob, Head(paths), MatchesFragmentGlob(Head(paths)))
            THEN afterLoad(found, Head(paths),
                           loadFragment(files, environ, Head(paths)))
            ELSE found,
            files, environ, Tail(paths))

\* FragmentDiscovery.discoverFragments
discoverFragments(files, environ) ==
    discoverFragmentsIn([fragments |-> << >>, thrown |-> << >>],
                        files, environ, FilesIn(files, ListingOrder))

\* OverrideDiscovery.discoverOverrides
RECURSIVE discoverOverridesIn(_, _)
discoverOverridesIn(files, paths) ==
    IF paths = << >> THEN << >>
    ELSE LET op == Head(paths)
             rest == discoverOverridesIn(files, Tail(paths))
         IN  IF ~Memo(overrideGlob, op, MatchesOverrideGlob(op)) THEN rest
             ELSE <<[type |-> "override", path |-> op,
                     content |-> files[op].content, metadata |-> Undefined,
                     priority |-> OVERRIDE_PRIORITY]>> \o rest

discoverOverrides(files) == discoverOverridesIn(files, FilesIn(files, ListingOrder))

\* ActiveModuleFilter.filterFragmentsWithConditions for fragments that lie
\* outside atom-framework/modules/ and declare no _conditions: the first
\* test of filterFragments keeps them and checkConditions accepts them
filterFragmentsWithConditions(fragments) ==
    SelectSeq(fragments,
              LAMBDA fr : ~Memo(inFrameworkModules, fr.path,
                                Includes(fr.path, FRAMEWORK_MODULES))
                          /\ fr.metadata._conditions = Undefined)

(***************************************************************************)
(* ActiveModuleFilter                                                      *)
(***************************************************************************)

\* the segments of a path: the texts between its separators
RECURSIVE SplitPath(_)
SplitPath(p) ==
    IF IndexOf(p, SLASH) = 0 THEN <<p>>
    ELSE <<Sub(p, 1, IndexOf(p, SLASH) - 1)>>
            \o SplitPath(Sub(p, IndexOf(p, SLASH) + 1, Len(p)))

\* the segments of a path normalised: empty and "." segments are dropped and
\* ".." takes the segment before it away
RECURSIVE NormalizeSegments(_, _)
NormalizeSegments(stack, segments) ==
    IF segments = << >> THEN stack
    ELSE NormalizeSegments(
            IF Head(segments) \in {<< >>, <<".">>} THEN stack
            ELSE IF Head(segments) = <<".", ".">>
            THEN Sub(stack, 1, Len(stack) - 1)
            ELSE Append(stack, Head(segments)),
            Tail(segments))

RECURSIVE JoinSegments(_)
JoinSegments(segments) ==
    IF segments = << >> THEN << >>
    ELSE SLASH \o Head(segments) \o JoinSegments(Tail(segments))

\* path.resolve(from, to) for an absolute path `from`
PathResolve(from, to) ==
    JoinSegments(NormalizeSegments(<< >>,
        SplitPath(IF StartsWith(to, SLASH) THEN to ELSE from \o SLASH \o to)))

MODULES == <<"m", "o", "d", "u", "l", "e", "s">>
modulesDir == PathJoin(projectRoot, MODULES)
atomModulesDir == PathJoin(PathJoin(projectRoot, <<"a", "t", "o", "m", "-", "f", "r", "a", "m", "e", "w", "o", "r", "k">>), MODULES)

\* fs.existsSync(p): a symbolic link exists when what it points to does
existsSync(files, p) ==
    /\ p \in DOMAIN files
    /\ files[p].kind # "none"
    /\ files[p].kind = "link" =>
        /\ PathResolve(PathDirname(p), files[p].to) \in DOMAIN files
        /\ files[PathResolve(PathDirname(p), files[p].to)].kind # "none"

\* ActiveModuleFilter.isModuleActive(moduleName)
isModuleActive(files, moduleName) ==
    /\ existsSync(files, PathJoin(modulesDir, moduleName))
    /\ files[PathJoin(modulesDir, moduleName)].kind = "link"
    /\ PathResolve(modulesDir, files[PathJoin(modulesDir, moduleName)].to)
            = PathResolve(PathJoin(atomModulesDir, moduleName), << >>)

\* the end of the first segment of s from position i on
RECURSIVE SegmentEnd(_, _)
SegmentEnd(s, i) ==
    IF i <= Len(s) /\ s[i] # "/" THEN SegmentEnd(s, i + 1) ELSE i - 1

\* the positions where /atom-framework[\/\\]modules[\/\\]([^\/\\]+)/ matches
\* a path of the model (its separators are "/")
ModuleMatches(fragmentPath) ==
    {i \in 1..Len(fragmentPath) :
        /\ OccursAt(fragmentPath, FRAMEWORK_MODULES, i)
        /\ SegmentEnd(fragmentPath, i + Len(FRAMEWORK_MODULES))
                >= i + Len(FRAMEWORK_MODULES)}

\* match[1] of the leftmost match
moduleNameOf(fragmentPath) ==
    LET i == CHOOSE i \in ModuleMatches(fragmentPath) :
                \A j \in ModuleMatches(fragmentPath) : i <= j
    IN  Sub(fragmentPath, i + Len(FRAMEWORK_MODULES),
            SegmentEnd(fragmentPath, i + Len(FRAMEWORK_MODULES)))

\* the callback of filterFragments for one fragment
keepsFragment(files, fragment) ==
    IF ~Includes(fragment.path, FRAMEWORK_MODULES) THEN TRUE
    ELSE IF ModuleMatches(fragment.path) = {} THEN TRUE
    ELSE IF fragment.metadata._activeOnly = JBool(FALSE) THEN TRUE
    ELSE isModuleActive(files, moduleNameOf(fragment.path))

\* ActiveModuleFilter.filterFragments(fragments)
filterFragments(files, fragments) ==
    SelectSeq(fragments, LAMBDA fragment : keepsFragment(files, fragment))

\* fs.readdirSync(dir, {withFileTypes: true}): the entries directly under dir
readdirSync(files, dir) ==
    {p \in DOMAIN files : PathDirname(p) = dir /\ files[p].kind # "none"}

\* the test `if (this.activeModulesCache)` with a size test in its place
cacheIsSet_nonEmpty(activeModulesCache) ==
    activeModulesCache # << >> /\ activeModulesCache[1] # {}

\* the test `if (this.activeModulesCache)`: the cache is null (<< >>) or a
\* Set (<<names>>), and a Set is truthy whatever it holds
cacheIsSet(activeModulesCache) == activeModulesCache # << >>

\* the names getActiveModules() computes when the cache is not set
computeActiveModules(files) ==
    IF ~existsSync(files, modulesDir) THEN {}
    ELSE {name \in {PathBasename(p) :
                        p \in {q \in readdirSync(files, modulesDir) :
                                    files[q].kind = "link"}} :
            isModuleActive(files, name)}

\* ActiveModuleFilter.getActiveModules(): what it returns and the cache it
\* leaves
getActiveModules(files, activeModulesCache) ==
    IF cacheIsSet(activeModulesCache)
    THEN [returns |-> activeModulesCache[1], cache |-> activeModulesCache]
    ELSE [returns |-> computeActiveModules(files),
          cache |-> <<computeActiveModules(files)>>]

\* ActiveModuleFilter.clearCache()
clearCache == << >>

(***************************************************************************)
(* AppendLinesStrategy                                                     *)
(***************************************************************************)

NEWLINE == "\n"
Whitespace == {" ", "\t", "\r", "\n"}

\* s.split('\n')
RECURSIVE SplitLines(_)
SplitLines(s) ==
    LET i == IndexOf(s, <<NEWLINE>>)
    IN  IF i = 0 THEN <<s>>
        ELSE <<Sub(s, 1, i - 1)>> \o SplitLines(Sub(s, i + 1, Len(s)))

\* line.trim() === ''
IsBlank(line) == \A i \in DOMAIN line : line[i] \in Whitespace

\* an inner loop that compares each line with the line before it only
RECURSIVE appendLines_adjacent(_, _)
appendLines_adjacent(allLines, lines) ==
    IF lines = << >> THEN allLines
    ELSE appendLines_adjacent(
            IF IsBlank(Head(lines))
                \/ (allLines # << >> /\ allLines[Len(allLines)] = Head(lines))
            THEN allLines ELSE Append(allLines, Head(lines)),
            Tail(lines))

\* the inner loop of AppendLinesStrategy.merge over the lines of one source
RECURSIVE appendLines(_, _)
appendLines(allLines, lines) ==
    IF lines = << >> THEN allLines
    ELSE LET line == Head(lines)
         IN  appendLines(IF IsBlank(line) \/ line \in Range(allLines)
                         THEN allLines ELSE Append(allLines, line),
                         Tail(lines))

RECURSIVE appendSources(_, _)
appendSources(allLines, sources) ==
    IF sources = << >> THEN allLines
    ELSE appendSources(appendLines(allLines, SplitLines(Head(sources).s)),
                       Tail(sources))

\* allLines.join('\n') + '\n'
RECURSIVE JoinLines(_)
JoinLines(lines) ==
    IF lines = << >> THEN << >>
    ELSE IF Len(lines) = 1 THEN Head(lines)
    ELSE Head(lines) \o <<NEWLINE>> \o JoinLines(Tail(lines))

\* AppendLinesStrategy.merge: source.split throws for a source that is no
\* string
AppendLinesStrategy_merge(sources) ==
    IF \E i \in DOMAIN sources : sources[i].t # "str" THEN MergeError
    ELSE JStr(JoinLines(appendSources(<< >>, sources)) \o <<NEWLINE>>)

(***************************************************************************)
(* What the strategies below share                                         *)
(***************************************************************************)

\* o[k] of a JavaScript value: "undefined" when o has no such property
Get(o, k) == IF IsObj(o) /\ k \in DOMAIN o.f THEN o.f[k] ELSE Undefined

\* `if (v)` for a property that may be missing
Present(v) == v # Undefined /\ Truthy(v)

\* Object.assign(target, source) and { ...target, ...source }
Assign(target, source) ==
    JObj([k \in DOMAIN Spread(target).f \cup DOMAIN Spread(source).f |->
            IF k \in DOMAIN Spread(source).f THEN Spread(source).f[k]
            ELSE Spread(target).f[k]])

\* target[key] || {}
OrEmpty(v) == IF Present(v) THEN v ELSE EmptyObj

(***************************************************************************)
(* DockerComposeMergeStrategy                                              *)
(***************************************************************************)

DEFAULT_COMPOSE_VERSION == JStr(<<"3", ".", "8">>)

\* DockerComposeMergeStrategy.deepMerge(target, source)
RECURSIVE dockerDeepMerge(_, _)
dockerDeepMerge(target, source) ==
    JObj([key \in DOMAIN Spread(target).f \cup DOMAIN Spread(source).f |->
            IF key \notin DOMAIN Spread(source).f THEN Spread(target).f[key]
            ELSE IF TypeofObject(Spread(source).f[key]) /\ ~IsArr(Spread(source).f[key])
            THEN dockerDeepMerge(OrEmpty(Get(Spread(target), key)),
                                 Spread(source).f[key])
            ELSE Spread(source).f[key]])

\* the loop over Object.entries(source.services)
dockerServices(services, sourceServices) ==
    JObj([name \in DOMAIN services.f \cup DOMAIN Spread(sourceServices).f |->
            IF name \in DOMAIN Spread(sourceServices).f
            THEN dockerDeepMerge(OrEmpty(Get(services, name)),
                                 Spread(sourceServices).f[name])
            ELSE services.f[name]])

dockerVersion(result, source) ==
    IF Present(Get(source, "version")) /\ ~Present(Get(result, "version"))
    THEN Put(result, "version", Get(source, "version"))
    ELSE result

dockerMergeServices(result, source) ==
    IF Present(Get(source, "services"))
    THEN Put(result, "services",
             dockerServices(OrEmpty(Get(result, "services")), Get(source, "services")))
    ELSE result

\* the blocks of volumes and of networks
dockerAssign(result, source, key) ==
    IF Present(Get(source, key))
    THEN Put(result, key, Assign(OrEmpty(Get(result, key)), Get(source, key)))
    ELSE result

\* the body of the loop of merge for one source
dockerSource(result, source) ==
    dockerAssign(
        dockerAssign(
            dockerMergeServices(dockerVersion(result, source), source),
            source, "volumes"),
        source, "networks")

RECURSIVE dockerFold(_, _)
dockerFold(result, sources) ==
    IF sources = << >> THEN result
    ELSE dockerFold(dockerSource(result, Head(sources)), Tail(sources))

\* DockerComposeMergeStrategy.merge(sources): reading a property of a null
\* source throws
DockerComposeMergeStrategy_merge(sources) ==
    IF \E i \in DOMAIN sources : sources[i] \in {JNull, Undefined} THEN MergeError
    ELSE dockerFold(JObj("version" :> DEFAULT_COMPOSE_VERSION), sources)

(***************************************************************************)
(* VSCodeTasksMergeStrategy                                                *)
(***************************************************************************)

DEFAULT_TASKS_VERSION == JStr(<<"2", ".", "0", ".", "0">>)

\* a === b for two property values of different parsed contents
StrictEquals(a, b) == a = b /\ (IsPrimitive(a) \/ a = Undefined)

\* input.id is read only when result.inputs holds something, and throws for
\* a null input
vscodeInputsThrow(inputs, sourceInputs) ==
    \E k \in DOMAIN sourceInputs :
        sourceInputs[k] = JNull /\ (inputs # << >> \/ k > 1)

\* the loop over source.inputs when it does not throw
RECURSIVE vscodeInputs(_, _)
vscodeInputs(inputs, sourceInputs) ==
    IF sourceInputs = << >> THEN inputs
    ELSE vscodeInputs(
            IF \E i \in DOMAIN inputs :
                        StrictEquals(Get(inputs[i], "id"), Get(Head(sourceInputs), "id"))
            THEN inputs
            ELSE Append(inputs, Spread(Head(sourceInputs))),
            Tail(sourceInputs))

vscodeVersion(result, source) ==
    IF Present(Get(source, "version"))
    THEN Put(result, "version", Get(source, "version")) ELSE result

vscodeTasks(result, source) ==
    IF Present(Get(source, "tasks")) /\ IsArr(Get(source, "tasks"))
    THEN Put(result, "tasks",
             JArr(result.f.tasks.e
                    \o [i \in DOMAIN source.f.tasks.e |-> Spread(source.f.tasks.e[i])]))
    ELSE result

vscodeMergeInputs(result, source) ==
    IF Present(Get(source, "inputs")) /\ IsArr(Get(source, "inputs"))
    THEN IF vscodeInputsThrow(result.f.inputs.e, source.f.inputs.e)
         THEN MergeError
         ELSE Put(result, "inputs",
                  JArr(vscodeInputs(result.f.inputs.e, source.f.inputs.e)))
    ELSE result

vscodeOptions(result, source) ==
    IF result = MergeError THEN MergeError
    ELSE IF Present(Get(source, "options"))
    THEN Put(result, "options",
             Assign(OrEmpty(Get(result, "options")), Get(source, "options")))
    ELSE result

vscodeSource(result, source) ==
    vscodeOptions(
        vscodeMergeInputs(vscodeTasks(vscodeVersion(result, source), source), source),
        source)

RECURSIVE vscodeFold(_, _)
vscodeFold(result, sources) ==
    IF sources = << >> \/ result = MergeError THEN result
    ELSE vscodeFold(vscodeSource(result, Head(sources)), Tail(sources))

\* VSCodeTasksMergeStrategy.merge(sources)
VSCodeTasksMergeStrategy_merge(sources) ==
    IF \E i \in DOMAIN sources : sources[i] \in {JNull, Undefined} THEN MergeError
    ELSE vscodeFold(JObj("version" :> DEFAULT_TASKS_VERSION
                            @@ "tasks" :> JArr(<< >>)
                            @@ "inputs" :> JArr(<< >>)),
                    sources)

(***************************************************************************)
(* PnpmWorkspaceMergeStrategy                                              *)
(***************************************************************************)

\* PnpmWorkspaceMergeStrategy.deepMerge(target, source): the target after
\* the call; a property set on an array target does not show in the written
\* file
RECURSIVE pnpmDeepMerge(_, _)
pnpmDeepMerge(target, source) ==
    IF ~IsObj(target) THEN target
    ELSE JObj([key \in DOMAIN target.f \cup DOMAIN Spread(source).f |->
            IF key \notin DOMAIN Spread(source).f THEN target.f[key]
            ELSE IF TypeofObject(Spread(source).f[key])
                    /\ Spread(source).f[key] # JNull
                    /\ ~IsArr(Spread(source).f[key])
            THEN pnpmDeepMerge(
                    IF Present(Get(target, key)) /\ TypeofObject(Get(target, key))
                    THEN Get(target, key) ELSE EmptyObj,
                    Spread(source).f[key])
            ELSE Spread(source).f[key]])

pnpmPackages(result, source) ==
    IF Present(Get(source, "packages")) /\ IsArr(Get(source, "packages"))
    THEN Put(result, "packages",
             JArr(PushUnique(result.f.packages.e, source.f.packages.e)))
    ELSE result

pnpmCatalogs(result, source) ==
    IF Present(Get(source, "catalogs"))
    THEN Put(result, "catalogs", pnpmDeepMerge(result.f.catalogs, Get(source, "catalogs")))
    ELSE result

\* the copy of the other properties of the source
pnpmOthers(result, source) ==
    JObj([key \in DOMAIN result.f \cup (DOMAIN Spread(source).f \ {"packages", "catalogs"}) |->
            IF key \in DOMAIN Spread(source).f \ {"packages", "catalogs"}
            THEN Spread(source).f[key] ELSE result.f[key]])

pnpmSource(result, source) ==
    pnpmOthers(pnpmCatalogs(pnpmPackages(result, source), source), source)

RECURSIVE pnpmFold(_, _)
pnpmFold(result, sources) ==
    IF sources = << >> THEN result
    ELSE pnpmFold(pnpmSource(result, Head(sources)), Tail(sources))

\* PnpmWorkspaceMergeStrategy.merge(sources)
PnpmWorkspaceMergeStrategy_merge(sources) ==
    IF \E i \in DOMAIN sources : sources[i] \in {JNull, Undefined} THEN MergeError
    ELSE pnpmFold(JObj("packages" :> JArr(<< >>) @@ "catalogs" :> EmptyObj), sources)

(***************************************************************************)
(* GitLabCIMergeStrategy                                                   *)
(***************************************************************************)

GLOBAL_PROPERTIES ==
    {"stages", "variables", "image", "services", "before_script",
     "after_script", "cache", "default", "workflow", "include"}

\* the text of a property name
RECURSIVE ToKey(_)
ToKey(s) == IF s = << >> THEN "" ELSE Head(s) \o ToKey(Tail(s))

\* GitLabCIMergeStrategy.isLikelyMasterTemplate(source)
isLikelyMasterTemplate(source) ==
    Cardinality(DOMAIN Spread(source).f \cap GLOBAL_PROPERTIES) >= 3

\* a for-of loop over v does not throw
Iterable(v) == IsArr(v) \/ v.t = "str"

\* the items a for-of loop visits
Iterate(v) ==
    IF IsArr(v) THEN v.e ELSE [i \in DOMAIN v.s |-> JStr(<<v.s[i]>>)]

gitlabStages(target, source) ==
    IF ~Present(Get(source, "stages")) THEN target
    ELSE IF ~Iterable(Get(source, "stages")) THEN MergeError
    ELSE Put(target, "stages",
             JArr(PushUnique(target.f.stages.e, Iterate(Get(source, "stages")))))

gitlabVariables(target, source) ==
    IF target = MergeError THEN MergeError
    ELSE IF Present(Get(source, "variables"))
    THEN Put(target, "variables", Assign(target.f.variables, Get(source, "variables")))
    ELSE target

\* the value a global property other than stages and variables gets
gitlabGlobalValue(current, value) ==
    IF IsArr(value) /\ IsArr(current)
    THEN JArr(current.e
                \o SelectSeq(value.e, LAMBDA item : ~ArrIncludes(current.e, item)))
    ELSE IF TypeofObject(value) /\ value # JNull /\ TypeofObject(current)
    THEN Assign(current, value)
    ELSE value

gitlabOthers(target, source) ==
    IF target = MergeError THEN MergeError
    ELSE JObj([key \in DOMAIN target.f
                    \cup ((DOMAIN Spread(source).f \cap GLOBAL_PROPERTIES) \ {"stages", "variables"}) |->
            IF key \in (DOMAIN Spread(source).f \cap GLOBAL_PROPERTIES) \ {"stages", "variables"}
            THEN gitlabGlobalValue(Get(target, key), Spread(source).f[key])
            ELSE target.f[key]])

\* GitLabCIMergeStrategy.mergeGlobalProperties(target, source)
mergeGlobalProperties(target, source) ==
    gitlabOthers(gitlabVariables(gitlabStages(target, source), source), source)

\* relativeDir.replace(/[/\\]/g, ':')
SeparatorsToColons(s) ==
    [i \in DOMAIN s |-> IF s[i] \in {"/", "\\"} THEN ":" ELSE s[i]]

PACKAGES_COLON == <<"p", "a", "c", "k", "a", "g", "e", "s", ":">>
MODULES_COLON == <<"m", "o", "d", "u", "l", "e", "s", ":">>

\* s.replace(/^(packages|modules):/, '')
StripCommonPrefix(s) ==
    IF StartsWith(s, PACKAGES_COLON) THEN Sub(s, Len(PACKAGES_COLON) + 1, Len(s))
    ELSE IF StartsWith(s, MODULES_COLON) THEN Sub(s, Len(MODULES_COLON) + 1, Len(s))
    ELSE s

\* a prefix that keeps the leading packages: or modules:
getJobPrefix_keepCommon(relativeDir) ==
    IF relativeDir \in {<<".">>, << >>} THEN JNull
    ELSE JStr(SeparatorsToColons(relativeDir))

\* GitLabCIMergeStrategy.getJobPrefix(relativeDir): the prefix, or JNull
getJobPrefix(relativeDir) ==
    IF relativeDir \in {<<".">>, << >>} THEN JNull
    ELSE JStr(StripCommonPrefix(SeparatorsToColons(relativeDir)))

\* the project root mergeJobs derives from the context
contextRoot(context) ==
    Sub(context.targetPath, 1,
        Len(context.targetPath) - Len(context.relativePath) - 1)

relativeSourcePath(sourcePath, context) ==
    IF StartsWith(sourcePath, contextRoot(context))
    THEN Sub(sourcePath, Len(contextRoot(context)) + 2, Len(sourcePath))
    ELSE sourcePath

relativeDirOf(relativeSource) ==
    IF LastIndexOf(relativeSource, SLASH) >= 1
    THEN Sub(relativeSource, 1, LastIndexOf(relativeSource, SLASH) - 1)
    ELSE <<".">>

\* the name mergeJobs stores the job `key` under
jobNameOf(key, prefix, isTemplate) ==
    IF ~isTemplate /\ Truthy(prefix) THEN ToKey(prefix.s) \o ":" \o key ELSE key

\* the names of the jobs of the source: its properties that are not global
JobKeys(source) == DOMAIN Spread(source).f \ GLOBAL_PROPERTIES

\* GitLabCIMergeStrategy.mergeJobs(target, source, sourcePath, isTemplate, context)
mergeJobs(target, source, sourcePath, isTemplate, context) ==
    IF target = MergeError THEN MergeError
    ELSE LET prefix == getJobPrefix(relativeDirOf(relativeSourcePath(sourcePath, context)))
         IN  JObj([name \in DOMAIN target.f
                        \cup {jobNameOf(key, prefix, isTemplate) : key \in JobKeys(source)} |->
                    IF \E key \in JobKeys(source) : jobNameOf(key, prefix, isTemplate) = name
                    THEN Spread(source).f[CHOOSE key \in JobKeys(source) :
                                            jobNameOf(key, prefix, isTemplate) = name]
                    ELSE target.f[name]])

\* the body of the loop of merge for the source i
gitlabSource(result, source, sourcePath, context) ==
    mergeJobs(IF isLikelyMasterTemplate(source)
              THEN mergeGlobalProperties(result, source) ELSE result,
              source, sourcePath, isLikelyMasterTemplate(source), context)

RECURSIVE gitlabFold(_, _, _, _)
gitlabFold(result, sources, i, context) ==
    IF i > Len(sources) \/ result = MergeError THEN result
    ELSE gitlabFold(gitlabSource(result, sources[i], context.sourcePaths[i], context),
                    sources, i + 1, context)

\* GitLabCIMergeStrategy.merge(sources, context)
GitLabCIMergeStrategy_merge(sources, context) ==
    IF \E i \in DOMAIN sources : sources[i] \in {JNull, Undefined} THEN MergeError
    ELSE gitlabFold(JObj("stages" :> JArr(<< >>) @@ "variables" :> EmptyObj),
                    sources, 1, context)

(***************************************************************************)
(* DiffExtractor                                                           *)
(***************************************************************************)

\* DiffExtractor.isObject(value)
isObject(value) == IsObj(value)

\* an equality that compares objects and arrays by reference
deepEqual_byReference(a, b) == a = b /\ (IsPrimitive(a) \/ a = Undefined)

\* DiffExtractor.deepEqual(a, b): a is a value of the template or
\* "undefined", b a value of the current tree
RECURSIVE deepEqual(_, _)
deepEqual(a, b) ==
    IF (IsPrimitive(a) \/ a = Undefined) /\ a = b THEN TRUE
    ELSE IF a \in {JNull, Undefined} \/ b \in {JNull, Undefined} THEN FALSE
    ELSE IF TypeofObject(a) /\ TypeofObject(b)
    THEN IF IsArr(a) # IsArr(b) THEN FALSE
         ELSE IF IsArr(a)
         THEN /\ Len(a.e) = Len(b.e)
              /\ \A i \in DOMAIN a.e : deepEqual(a.e[i], b.e[i])
         ELSE /\ Cardinality(DOMAIN a.f) = Cardinality(DOMAIN b.f)
              /\ \A key \in DOMAIN a.f :
                    key \in DOMAIN b.f /\ deepEqual(a.f[key], b.f[key])
    ELSE FALSE

\* DiffExtractor.smartJsonDiff(master, current): the diff, or JNull
RECURSIVE smartJsonDiff(_, _)
smartDiffHas(master, current, key) ==
    IF ~Has(master, key) THEN TRUE
    ELSE IF isObject(current.f[key]) /\ isObject(master.f[key])
    THEN /\ smartJsonDiff(master.f[key], current.f[key]) # JNull
         /\ IsObj(smartJsonDiff(master.f[key], current.f[key]))
         /\ DOMAIN smartJsonDiff(master.f[key], current.f[key]).f # {}
    ELSE ~deepEqual(master.f[key], current.f[key])

smartJsonDiff(master, current) ==
    IF ~TypeofObject(current) \/ current = JNull
    THEN IF current # master THEN current ELSE JNull
    ELSE IF ~isObject(master) THEN current
    ELSE IF \A key \in DOMAIN Spread(current).f : ~smartDiffHas(master, Spread(current), key)
    THEN JNull
    ELSE JObj([key \in {k \in DOMAIN Spread(current).f : smartDiffHas(master, Spread(current), k)} |->
                IF Has(master, key) /\ isObject(Spread(current).f[key]) /\ isObject(master.f[key])
                THEN smartJsonDiff(master.f[key], Spread(current).f[key])
                ELSE Spread(current).f[key]])

\* the test of Migrator.extract that skips a target without differences
noDifferences(content) ==
    ~Truthy(content) \/ DOMAIN Spread(content).f = {}

\* DiffExtractor.preserveAllDiff(master, current)
RECURSIVE preserveAllDiff(_, _)
preserveAllHas(master, current, key) ==
    IF ~Has(master, key) THEN TRUE
    ELSE /\ isObject(current.f[key]) /\ isObject(master.f[key])
         /\ IsObj(preserveAllDiff(master.f[key], current.f[key]))
         /\ DOMAIN preserveAllDiff(master.f[key], current.f[key]).f # {}

preserveAllDiff(master, current) ==
    IF ~TypeofObject(current) \/ current = JNull THEN current
    ELSE IF ~isObject(master) THEN current
    ELSE JObj([key \in {k \in DOMAIN Spread(current).f : preserveAllHas(master, Spread(current), k)} |->
                IF Has(master, key) THEN preserveAllDiff(master.f[key], Spread(current).f[key])
                ELSE Spread(current).f[key]])

\* DiffExtractor.extract(masterContent, currentContent, options).content
extractDiff(strategy, masterContent, currentContent) ==
    IF strategy \in {"minimal", "smart-extract"}
    THEN smartJsonDiff(masterContent, currentContent)
    ELSE preserveAllDiff(masterContent, currentContent)

(***************************************************************************)
(* VSCodeTasksMergeStrategy.postProcess                                    *)
(***************************************************************************)

Letters ==
    <<"a", "b", "c", "d", "e", "f", "g", "h", "i", "j", "k", "l", "m",
      "n", "o", "p", "q", "r", "s", "t", "u", "v", "w", "x", "y", "z">>

LetterRank(c) == CHOOSE i \in DOMAIN Letters : Letters[i] = c

\* a.localeCompare(b) < 0 for texts of lower-case letters
RECURSIVE ComesBefore(_, _)
ComesBefore(a, b) ==
    IF b = << >> THEN FALSE
    ELSE IF a = << >> THEN TRUE
    ELSE IF Head(a) # Head(b) THEN LetterRank(Head(a)) < LetterRank(Head(b))
    ELSE ComesBefore(Tail(a), Tail(b))

\* (item[key] || '') for an item whose key holds a text or nothing
SortKey(item, key) ==
    IF Present(Get(item, key)) THEN Get(item, key).s ELSE << >>

\* the place of an item in a sorted list: behind every item that does not
\* come after it, the sort being stable
RECURSIVE InsertSorted(_, _, _)
InsertSorted(sorted, item, key) ==
    IF sorted = << >> THEN <<item>>
    ELSE IF ComesBefore(SortKey(item, key), SortKey(Head(sorted), key))
    THEN <<item>> \o sorted
    ELSE <<Head(sorted)>> \o InsertSorted(Tail(sorted), item, key)

\* items.sort((a, b) => (a[key] || '').localeCompare(b[key] || ''))
RECURSIVE SortBy(_, _)
SortBy(items, key) ==
    IF items = << >> THEN << >>
    ELSE InsertSorted(SortBy(Sub(items, 1, Len(items) - 1), key),
                      items[Len(items)], key)

\* VSCodeTasksMergeStrategy.postProcess(result, context)
VSCodeTasksMergeStrategy_postProcess(result) ==
    IF result = MergeError THEN MergeError
    ELSE Put(Put(result, "tasks", JArr(SortBy(result.f.tasks.e, "label"))),
             "inputs", JArr(SortBy(result.f.inputs.e, "id")))

(***************************************************************************)
(* ConfigManager                                                           *)
(***************************************************************************)

\* the position where a replace(/<lit>([^<excl>]+)$/, ...) matches s: the
\* leftmost position where `lit` is followed, up to the end of s, by one or
\* more characters other than `excl`; 0 when the expression does not match
RECURSIVE SuffixMatchFrom(_, _, _, _)
SuffixMatchFrom(s, lit, excl, i) ==
    IF i + Len(lit) > Len(s) THEN 0
    ELSE IF OccursAt(s, lit, i)
            /\ \A j \in (i + Len(lit))..Len(s) : s[j] # excl
    THEN i
    ELSE SuffixMatchFrom(s, lit, excl, i + 1)

SuffixMatch(s, lit, excl) == SuffixMatchFrom(s, lit, excl, 1)

\* s with the text `lit` at position i replaced by `by`; s when i = 0
ReplaceAt(s, i, lit, by) ==
    IF i = 0 THEN s
    ELSE Sub(s, 1, i - 1) \o by \o Sub(s, i + Len(lit), Len(s))

\* relativePath.replace(/__([^/]+)$/, "$1")
stripDunder(relativePath) ==
    ReplaceAt(relativePath, SuffixMatch(relativePath, DUNDER, "/"), DUNDER, << >>)

\* TemplateDiscovery.getTargetPath(templatePath, resolvedRelativePath)
templateGetTargetPath(templatePath, resolvedRelativePath, environ) ==
    PathJoin(projectRoot,
             resolve(stripDunder(
                        IF resolvedRelativePath # << >> THEN resolvedRelativePath
                        ELSE resolve(PathRelative(templatesDir, templatePath),
                                     environ).value),
                     environ).value)

\* relative.replace(/\.overrides\.([^.]+)$/, ".$1")
stripOverrides(relative) ==
    ReplaceAt(relative, SuffixMatch(relative, DOT_OVERRIDES_DOT, "."),
              DOT_OVERRIDES_DOT, DOT)

\* OverrideDiscovery.getTargetPath(overridePath)
overrideGetTargetPath(overridePath) ==
    PathJoin(projectRoot, stripOverrides(PathRelative(projectRoot, overridePath)))

templateTargets ==
    [k \in Paths \X ResolvedTexts \X Environments |->
        templateGetTargetPath(k[1], k[2], k[3])]
overrideTargets == [p \in Paths |-> overrideGetTargetPath(p)]

\* groups.get(targetPath).push(source), creating the group when new; the
\* Map keeps the groups in the order of their first insertion
AddToGroup(groups, targetPath, source) ==
    IF \E i \in DOMAIN groups : groups[i].targetPath = targetPath
    THEN [i \in DOMAIN groups |->
            IF groups[i].targetPath = targetPath
            THEN [groups[i] EXCEPT !.sources = Append(@, source)]
            ELSE groups[i]]
    ELSE Append(groups, [targetPath |-> targetPath, sources |-> <<source>>])

\* the source that groupByTarget pushes for a template
templateSource(template) ==
    [type |-> template.type, path |-> template.path,
     content |-> template.content, metadata |-> template.metadata,
     priority |-> template.priority]

\* templateDiscovery.getTargetPath(template.path, resolvedRelativePath)
templateTarget(template, environ) ==
    Memo(templateTargets,
         <<template.path, template.resolvedRelativePath, environ>>,
         templateGetTargetPath(template.path, template.resolvedRelativePath,
                               environ))

RECURSIVE addTemplates(_, _, _)
addTemplates(groups, templates, environ) ==
    IF templates = << >> THEN groups
    ELSE addTemplates(AddToGroup(groups, templateTarget(Head(templates), environ),
                                 templateSource(Head(templates))),
                      Tail(templates), environ)

\* fragment.metadata._priority || 100
fragmentPriority(metadata) ==
    IF metadata._priority # Undefined /\ Truthy(metadata._priority)
    THEN metadata._priority.n
    ELSE DEFAULT_FRAGMENT_PRIORITY

\* the targets of a fragment: the list, or the single path as a list
fragmentTargets(metadata) ==
    IF IsArr(metadata._targetPath) THEN metadata._targetPath.e
    ELSE <<metadata._targetPath>>

RECURSIVE addFragmentTargets(_, _, _)
addFragmentTargets(groups, fragment, targets) ==
    IF targets = << >> THEN groups
    ELSE addFragmentTargets(
            AddToGroup(groups, PathJoin(projectRoot, Head(targets).s),
                       [type |-> "fragment", path |-> fragment.path,
                        content |-> fragment.content,
                        metadata |-> fragment.metadata,
                        priority |-> fragmentPriority(fragment.metadata)]),
            fragment, Tail(targets))

RECURSIVE addFragments(_, _)
addFragments(groups, fragments) ==
    IF fragments = << >> THEN groups
    ELSE addFragments(addFragmentTargets(groups, Head(fragments),
                                         fragmentTargets(Head(fragments).metadata)),
                      Tail(fragments))

RECURSIVE addOverrides(_, _)
addOverrides(groups, overrides) ==
    IF overrides = << >> THEN groups
    ELSE addOverrides(AddToGroup(groups,
                                 Memo(overrideTargets, Head(overrides).path,
                                      overrideGetTargetPath(Head(overrides).path)),
                                 Head(overrides)),
                      Tail(overrides))

\* sources.sort((a, b) => a.priority - b.priority): Array.prototype.sort is
\* stable, so sources of equal priority keep their insertion order
RECURSIVE InsertByPriority(_, _)
InsertByPriority(sorted, source) ==
    IF sorted = << >> THEN <<source>>
    ELSE IF Head(sorted).priority <= source.priority
    THEN <<Head(sorted)>> \o InsertByPriority(Tail(sorted), source)
    ELSE <<source>> \o sorted

RECURSIVE SortByPriority(_)
SortByPriority(sources) ==
    IF sources = << >> THEN << >>
    ELSE InsertByPriority(SortByPriority(Sub(sources, 1, Len(sources) - 1)),
                          sources[Len(sources)])

\* the sort of every group's sources
sortGroups(groups) ==
    [i \in DOMAIN groups |-> [groups[i] EXCEPT !.sources = SortByPriority(@)]]

\* ConfigManager.groupByTarget: the groups in Map order, each
\* [targetPath, sources]
groupByTarget(templates, fragments, overrides, environ) ==
    sortGroups(addOverrides(addFragments(addTemplates(<< >>, templates, environ),
                                         fragments),
                            overrides))

\* strategy.merge(contents, context) of the strategy registered as `name`
StrategyMerge(name, contents) ==
    CASE name \in {"deep-merge", "yaml-merge", "toml-merge"} ->
            DeepMergeStrategy_merge(contents)
      [] name = "tsconfig" -> TsConfigMergeStrategy_merge(contents)
      [] name = "replace" -> ReplaceStrategy_merge(contents)
      [] name = "append-lines" -> AppendLinesStrategy_merge(contents)

\* strategy.merge(contents, context) for every registered strategy
StrategyMergeIn(name, contents, context) ==
    CASE name = "docker-compose" -> DockerComposeMergeStrategy_merge(contents)
      [] name = "vscode-tasks" -> VSCodeTasksMergeStrategy_merge(contents)
      [] name = "pnpm-workspace" -> PnpmWorkspaceMergeStrategy_merge(contents)
      [] name = "gitlab-ci" -> GitLabCIMergeStrategy_merge(contents, context)
      [] OTHER -> StrategyMerge(name, contents)

\* a mergeAndWrite that reads no declared strategy name
explicitStrategy_none(sources) == Undefined

\* sources.find((s) => s.metadata?._mergeStrategy)?.metadata?._mergeStrategy
explicitStrategy(sources) ==
    LET declares(i) == /\ sources[i].metadata # Undefined
                       /\ sources[i].metadata._mergeStrategy # Undefined
                       /\ Truthy(sources[i].metadata._mergeStrategy)
    IN  IF \E i \in DOMAIN sources : declares(i)
        THEN sources[CHOOSE i \in DOMAIN sources :
                        declares(i) /\ \A j \in 1..(i - 1) : ~declares(j)
                    ].metadata._mergeStrategy
        ELSE Undefined

JsonExts == {<<".", "j", "s", "o", "n">>, <<".", "j", "s", "o", "n", "c">>, <<".", "j", "s", "o", "n", "5">>}

\* what mergeAndWrite hands to fs.writeFile, the provenance header left out:
\* for a JSON target the spread of a result that is no object adds nothing
WrittenContent(ext, final) ==
    IF ext \in JsonExts /\ ~IsObj(final) THEN EmptyObj ELSE final

\* Results of processTarget and mergeAndWrite: the result of the file system
\* calls, with the name of the strategy that merged ("" when none did).
WithStrategy(r, name) ==
    [ok |-> r.ok, code |-> r.code, fs |-> r.fs, strategy |-> name]

\* getStrategy(explicitStrategy, targetPath)
strategyFor(targetPath, sources) ==
    Memo(strategyChoices, <<explicitStrategy(sources), targetPath>>,
         getStrategy(explicitStrategy(sources), targetPath))

\* a mergeAndWrite that leaves the symbolic link found at the target
clearSymlink_keepsLink(files, targetPath) == Ok(files)

\* mergeAndWrite before it writes: an existing symbolic link at the target
\* is removed, or the write would follow it
clearSymlink(files, targetPath) ==
    IF files[targetPath].kind = "link" THEN unlink(files, targetPath)
    ELSE Ok(files)

\* fs.writeFile(targetPath, data) after clearSymlink returned `cleared`
writeCleared(cleared, targetPath, data) ==
    IF ~cleared.ok THEN cleared ELSE writeFile(cleared.fs, targetPath, data)

\* mergeAndWrite once the strategy `name` returned `merged`, or threw
writeMerged(files, targetPath, name, merged) ==
    IF merged = MergeError THEN WithStrategy(Fail("MERGE", files), name)
    ELSE WithStrategy(
            writeCleared(clearSymlink(files, targetPath), targetPath,
                         WrittenContent(
                            ToLowerCase(Memo(extnames, targetPath,
                                             PathExtname(targetPath))),
                            merged)),
            name)

\* mergeAndWrite with the strategy `name`
mergeWith(files, targetPath, sources, name) ==
    writeMerged(files, targetPath, name,
                StrategyMerge(name, [i \in DOMAIN sources |-> sources[i].content]))

\* ConfigManager.mergeAndWrite(targetPath, sources)
mergeAndWrite(files, targetPath, sources) ==
    mergeWith(files, targetPath, sources, strategyFor(targetPath, sources))

\* source.metadata?._copy || false
shouldCopy(source) ==
    /\ source.metadata # Undefined
    /\ source.metadata._copy # Undefined
    /\ Truthy(source.metadata._copy)

\* a processTarget that links and copies without a look at options.dryRun
processTarget_linksInDryRun(files, targetPath, sources, dryRun) ==
    IF Len(sources) = 0
    THEN WithStrategy(IF dryRun THEN Ok(files) ELSE remove(files, targetPath), "")
    ELSE IF Len(sources) = 1
    THEN WithStrategy(
            IF shouldCopy(sources[1])
            THEN copyFile(files, sources[1].path, targetPath)
            ELSE createSymlink(files, sources[1].path, targetPath), "")
    ELSE IF dryRun THEN WithStrategy(Ok(files), "")
    ELSE mergeAndWrite(files, targetPath, sources)

\* ConfigManager.processTarget(targetPath, sources) under options.dryRun
processTarget(files, targetPath, sources, dryRun) ==
    IF Len(sources) = 0
    THEN WithStrategy(IF dryRun THEN Ok(files) ELSE remove(files, targetPath), "")
    ELSE IF Len(sources) = 1
    THEN WithStrategy(
            IF dryRun THEN Ok(files)
            ELSE IF shouldCopy(sources[1])
            THEN copyFile(files, sources[1].path, targetPath)
            ELSE createSymlink(files, sources[1].path, targetPath), "")
    ELSE IF dryRun THEN WithStrategy(Ok(files), "")
    ELSE mergeAndWrite(files, targetPath, sources)

\* a loop of apply() that catches what processTarget throws and goes on
afterTarget_continue(r) == "next"

\* the loop of apply() over the groups has no try/catch: what processTarget
\* throws leaves the loop and apply()
afterTarget(r) == IF r.ok THEN "next" ELSE "throw"

(***************************************************************************)
(* The state                                                               *)
(***************************************************************************)

VARIABLES
    fs,             \* the file system: path -> entry
    pc,             \* "idle", or the state of the apply() run: "running", "done", "failed"
    opts,           \* the ConfigManagerOptions of the run: [dryRun, filter]
    env,            \* process.env of the run: name -> value, for the names set
    groups,         \* what groupByTarget returned to the run
    queue,          \* the groups the loop of apply() has not finished
    processed,      \* the targets whose processTarget returned in this run
    failedTargets,  \* the targets whose processTarget threw in this run
    strategyUsed,   \* target -> the strategy that merged it in this run
    thrown,         \* the fragment files whose load threw in this run
    fsStart,        \* the file system when the run started
    prevGenerated,  \* the targets the previous run linked, copied or wrote
    runs,           \* the number of runs started
    regenerating,   \* the flag `regenerating` of the watch command
    arg,            \* the input of the function under study (pure-function specifications)
    res             \* its result

vars == <<fs, pc, opts, env, groups, queue, processed, failedTargets,
          strategyUsed, thrown, fsStart, prevGenerated, runs, regenerating,
          arg, res>>

\* the number of apply() runs of a behaviour
MaxRuns == 2

(***************************************************************************)
(* The source files a user may write                                       *)
(***************************************************************************)

NoExtras == << >>

\* a fragment file: _targetPath, a body key, and further reserved keys
Frag(tp, bodyKey, n, extras) ==
    JObj(("_targetPath" :> tp) @@ (bodyKey :> JNum(n)) @@ extras)

STRATEGY_REPLACE == JStr(<<"r", "e", "p", "l", "a", "c", "e">>)
STRATEGY_BOGUS == JStr(<<"b", "o", "g", "u", "s">>)

FragXVariants ==
    {Frag(JStr(REL_A), "f", 1, NoExtras),
     Frag(JStr(TP_V), "f", 1, NoExtras),
     Frag(JStr(REL_B), "f", 1, "_copy" :> JBool(TRUE)),
     Frag(JStr(REL_A), "f", 1, "_priority" :> JNum(2000)),
     Frag(JStr(REL_A), "f", 1, "_priority" :> JNum(-1)),
     Frag(JStr(REL_B), "f", 1, "_mergeStrategy" :> STRATEGY_BOGUS),
     Frag(JStr(TP_W), "f", 1, NoExtras)}

FragYVariants ==
    {Frag(JStr(REL_B), "g", 2, NoExtras),
     Frag(JStr(REL_A), "g", 2, NoExtras),
     Frag(JStr(REL_B), "g", 2, "_mergeStrategy" :> STRATEGY_REPLACE)}

TplVariants == {JObj("k" :> JNum(1))}
OvVariants == {JObj("k" :> JNum(2)), JObj("k" :> JNull)}

Variants(p) ==
    CASE p = TPL_A -> TplVariants
      [] p = OV_A -> OvVariants
      [] p = FRAG_X -> FragXVariants
      [] p = FRAG_Y -> FragYVariants

\* what a target path may hold before the first run
OldContent == JObj("old" :> JNum(1))
InitialTargets(p) ==
    IF p = T_A THEN {NoEntry, FileEntry(OldContent)}
    ELSE {NoEntry, DirEntry}

\* options.filter: not given, or a list of patterns
FilterList(patterns) == [t |-> "list", e |-> patterns]

\* the options a run may be started with
OptionSets ==
    {[dryRun |-> FALSE, filter |-> Undefined],
     [dryRun |-> TRUE, filter |-> Undefined],
     [dryRun |-> FALSE, filter |-> FilterList(<<REL_A>>)]}

NoOptions == [dryRun |-> FALSE, filter |-> Undefined]

(***************************************************************************)
(* Init and the actions                                                    *)
(***************************************************************************)

PureIdle == arg = << >> /\ res = << >>

Init ==
    /\ fs \in [Paths -> {NoEntry, DirEntry, FileEntry(OldContent)}]
    /\ \A p \in SourcePaths : fs[p] = NoEntry
    /\ \A p \in TargetPaths : fs[p] \in InitialTargets(p)
    /\ pc = "idle"
    /\ opts = NoOptions
    /\ env = << >>
    /\ groups = << >>
    /\ queue = << >>
    /\ processed = {}
    /\ failedTargets = {}
    /\ strategyUsed = << >>
    /\ thrown = << >>
    /\ fsStart = fs
    /\ prevGenerated = {}
    /\ runs = 0
    /\ regenerating = FALSE
    /\ PureIdle

\* the targets the run that just ended has linked, copied or written
Generated ==
    IF pc \in {"done", "failed"}
    THEN IF opts.dryRun THEN {} ELSE processed
    ELSE prevGenerated

\* between runs: the run's record is dropped
Forget(newFs) ==
    /\ pc' = "idle"
    /\ opts' = NoOptions
    /\ env' = << >>
    /\ groups' = << >>
    /\ queue' = << >>
    /\ processed' = {}
    /\ failedTargets' = {}
    /\ strategyUsed' = << >>
    /\ thrown' = << >>
    /\ fsStart' = newFs
    /\ prevGenerated' = Generated
    /\ UNCHANGED <<runs, regenerating, arg, res>>

\* the user creates or rewrites a source file
WriteSource(p, content) ==
    /\ pc # "running"
    /\ runs < MaxRuns
    /\ fs[p] # FileEntry(content)
    /\ fs' = [fs EXCEPT ![p] = FileEntry(content)]
    /\ Forget(fs')

\* the user deletes a source file
DeleteSource(p) ==
    /\ pc # "running"
    /\ runs < MaxRuns
    /\ fs[p].kind # "none"
    /\ fs' = [fs EXCEPT ![p] = NoEntry]
    /\ Forget(fs')

\* apply(), up to the loop over the groups: discovery, filtering, grouping.
\* The options are those the ConfigManager was constructed with.
ApplyStart(environ) ==
    /\ pc # "running"
    /\ runs < MaxRuns
    /\ \E found \in {discoverFragments(fs, environ)} :
        \E targetGroups \in
                {groupByTarget(discoverTemplates(fs, environ),
                               filterFragmentsWithConditions(found.fragments),
                               discoverOverrides(fs), environ)} :
            /\ groups' = targetGroups
            /\ queue' = targetGroups
            /\ thrown' = found.thrown
    /\ opts' \in OptionSets
    /\ pc' = "running"
    /\ env' = environ
    /\ processed' = {}
    /\ failedTargets' = {}
    /\ strategyUsed' = << >>
    /\ fsStart' = fs
    /\ prevGenerated' = Generated
    /\ runs' = runs + 1
    /\ UNCHANGED <<fs, regenerating, arg, res>>

\* one turn of the loop of apply(): processTarget of the next group
ProcessTarget ==
    /\ pc = "running"
    /\ queue # << >>
    /\ \E r \in {processTarget(fs, Head(queue).targetPath, Head(queue).sources,
                                opts.dryRun)} :
        /\ fs' = r.fs
        /\ strategyUsed' = IF r.strategy # ""
                           THEN (Head(queue).targetPath :> r.strategy) @@ strategyUsed
                           ELSE strategyUsed
        /\ processed' = IF r.ok THEN processed \cup {Head(queue).targetPath}
                        ELSE processed
        /\ failedTargets' = IF r.ok THEN failedTargets
                            ELSE failedTargets \cup {Head(queue).targetPath}
        /\ IF afterTarget(r) = "next"
           THEN queue' = Tail(queue) /\ pc' = pc
           ELSE queue' = queue /\ pc' = "failed"
    /\ UNCHANGED <<opts, env, groups, thrown, fsStart, prevGenerated, runs,
                   regenerating, arg, res>>

\* the loop is over: apply() returns
ApplyDone ==
    /\ pc = "running"
    /\ queue = << >>
    /\ pc' = "done"
    /\ UNCHANGED <<fs, opts, env, groups, queue, processed, failedTargets,
                   strategyUsed, thrown, fsStart, prevGenerated, runs,
                   regenerating, arg, res>>

Next ==
    \/ \E p \in SourcePaths : \E c \in Variants(p) : WriteSource(p, c)
    \/ \E p \in SourcePaths : DeleteSource(p)
    \/ \E e \in Environments : ApplyStart(e)
    \/ ProcessTarget
    \/ ApplyDone

Spec == Init /\ [][Next]_vars

(***************************************************************************)
(* getStrategy as a function of its arguments                              *)
(***************************************************************************)

\* file names that targets may have
N_TSCONFIG == <<"t", "s", "c", "o", "n", "f", "i", "g", ".", "j", "s", "o", "n">>
N_TSCONFIG_BASE == <<"t", "s", "c", "o", "n", "f", "i", "g", ".", "b", "a", "s", "e", ".", "j", "s", "o", "n">>
N_TSCONFIG_BUILD == <<"t", "s", "c", "o", "n", "f", "i", "g", "-", "b", "u", "i", "l", "d", ".", "j", "s", "o", "n">>
N_TSCONFIG_UPPER == <<"T", "S", "C", "o", "n", "f", "i", "g", ".", "J", "S", "O", "N">>
N_COMPOSE == <<"d", "o", "c", "k", "e", "r", "-", "c", "o", "m", "p", "o", "s", "e", ".", "y", "m", "l">>
N_COMPOSE_PROD == <<"d", "o", "c", "k", "e", "r", "-", "c", "o", "m", "p", "o", "s", "e", ".", "p", "r", "o", "d", ".", "y", "a", "m", "l">>
N_PNPM_YAML == <<"p", "n", "p", "m", "-", "w", "o", "r", "k", "s", "p", "a", "c", "e", ".", "y", "a", "m", "l">>
N_PNPM_YML == <<"p", "n", "p", "m", "-", "w", "o", "r", "k", "s", "p", "a", "c", "e", ".", "y", "m", "l">>
N_GITLAB == <<".", "g", "i", "t", "l", "a", "b", "-", "c", "i", ".", "y", "m", "l">>
N_YAML == <<"c", ".", "y", "a", "m", "l">>
N_TOML == <<"d", ".", "t", "o", "m", "l">>
N_GITIGNORE == <<".", "g", "i", "t", "i", "g", "n", "o", "r", "e">>
N_DOCKERIGNORE == <<".", "d", "o", "c", "k", "e", "r", "i", "g", "n", "o", "r", "e">>
N_EDITORCONFIG == <<".", "e", "d", "i", "t", "o", "r", "c", "o", "n", "f", "i", "g">>
N_TXT == <<"n", "o", "t", "e", "s", ".", "t", "x", "t">>
N_MAKEFILE == <<"M", "a", "k", "e", "f", "i", "l", "e">>

FileNames ==
    {N_TSCONFIG, N_TSCONFIG_BASE, N_TSCONFIG_BUILD, N_TSCONFIG_UPPER,
     N_COMPOSE, N_COMPOSE_PROD, N_PNPM_YAML, N_PNPM_YML, N_GITLAB,
     REL_A, REL_B, N_YAML, N_TOML, N_GITIGNORE, N_DOCKERIGNORE,
     N_EDITORCONFIG, N_TXT, N_MAKEFILE}

SUB_DIR == <<"s", "u", "b">>
TargetDirs == {projectRoot, PathJoin(projectRoot, SUB_DIR)}

\* the arguments of getStrategy: the declared name of mergeAndWrite, and the
\* absolute target path that mergeAndWrite passes
StrategyInputs ==
    [strategyName : {Undefined, STRATEGY_REPLACE, STRATEGY_BOGUS},
     filePath : {PathJoin(d, n) : d \in TargetDirs, n \in FileNames}]

\* the state of the program while a function is studied on its own: no run
ApplyIdle ==
    /\ fs = [p \in Paths |-> NoEntry]
    /\ pc = "idle"
    /\ opts = NoOptions
    /\ env = << >>
    /\ groups = << >>
    /\ queue = << >>
    /\ processed = {}
    /\ failedTargets = {}
    /\ strategyUsed = << >>
    /\ thrown = << >>
    /\ fsStart = fs
    /\ prevGenerated = {}
    /\ runs = 0
    /\ regenerating = FALSE

applyVars == <<fs, pc, opts, env, groups, queue, processed, failedTargets,
               strategyUsed, thrown, fsStart, prevGenerated, runs, regenerating>>

InitStrategy ==
    /\ ApplyIdle
    /\ arg \in StrategyInputs
    /\ res = << >>

\* the call getStrategy(strategyName, filePath)
CallGetStrategy ==
    /\ res = << >>
    /\ res' = <<getStrategy(arg.strategyName, arg.filePath)>>
    /\ UNCHANGED <<applyVars, arg>>

NextStrategy == CallGetStrategy

SpecStrategy == InitStrategy /\ [][NextStrategy]_vars

(***************************************************************************)
(* The merge of [template, override] by the strategy of the target         *)
(***************************************************************************)

TemplateContents ==
    {JObj("k" :> JNum(1)),
     JObj("k" :> JNum(1) @@ "j" :> JNum(3)),
     JObj("compilerOptions" :> JObj("strict" :> JBool(TRUE))),
     JObj("compilerOptions" :> JObj("strict" :> JBool(FALSE))),
     JObj("compilerOptions" :> JObj("strict" :> JBool(TRUE) @@ "noEmit" :> JBool(TRUE))
            @@ "k" :> JNum(1)),
     JObj("k" :> JObj("m" :> JNum(1)))}

OverrideContents ==
    {JObj("k" :> JNull),
     JObj("k" :> JNum(2)),
     JObj("j" :> JNull),
     JObj("compilerOptions" :> JObj("strict" :> JNull)),
     JObj("compilerOptions" :> JObj("strict" :> JBool(FALSE))),
     JObj("compilerOptions" :> JNull),
     EmptyObj}

\* the targets of the merges: a generic JSON file and a tsconfig file
MergeTargets == {T_A, PathJoin(projectRoot, N_TSCONFIG)}

MergeInputs ==
    [targetPath : MergeTargets,
     sources : {<<t, o>> : t \in TemplateContents, o \in OverrideContents}]

InitMerge ==
    /\ ApplyIdle
    /\ arg \in MergeInputs
    /\ res = << >>

\* getStrategy(undefined, targetPath).merge(contents) as in mergeAndWrite
CallMerge ==
    /\ res = << >>
    /\ res' = <<StrategyMerge(getStrategy(Undefined, arg.targetPath), arg.sources)>>
    /\ UNCHANGED <<applyVars, arg>>

NextMerge == CallMerge

SpecMerge == InitMerge /\ [][NextMerge]_vars

(***************************************************************************)
(* TemplateVariableResolver.resolve as a function of the text and of the   *)
(* environment                                                             *)
(***************************************************************************)

VAR_W == <<"W">>

\* the pieces the texts are put together from: placeholders, plain text and
\* texts that only look like a placeholder
TextPieces ==
    {<<"{", "{", "V", "}", "}">>, <<"{", "{", "W", "}", "}">>, <<"a">>,
     <<"{", "{">>, <<"{", "{", "V", "}">>, <<"{", "{", "}", "}">>}

\* the longest text, in pieces
MaxPieces == 3

RECURSIVE TextsOf(_)
TextsOf(n) ==
    IF n = 0 THEN {<< >>}
    ELSE TextsOf(n - 1) \cup {t \o q : t \in TextsOf(n - 1), q \in TextPieces}

\* what a variable may hold: plain text, the empty text, placeholder-like
\* text and a replacement pattern
ValuesOfV == {<<"b">>, <<"{", "{", "W", "}", "}">>, <<"{", "{", "V", "}", "}", "x">>, <<"$", "&">>}
ValuesOfW == {<<"c">>, << >>}

\* process.env: each of V and W is set or not
ResolveEnvironments ==
    {<< >>}
        \cup {(VAR_V :> v) : v \in ValuesOfV}
        \cup {(VAR_W :> w) : w \in ValuesOfW}
        \cup {(VAR_V :> v) @@ (VAR_W :> w) : v \in ValuesOfV, w \in ValuesOfW}

ResolveInputs == [template : TextsOf(MaxPieces), environ : ResolveEnvironments]

InitResolve ==
    /\ ApplyIdle
    /\ arg \in ResolveInputs
    /\ res = << >>

\* the call TemplateVariableResolver.resolve(template)
CallResolve ==
    /\ res = << >>
    /\ res' = <<resolve(arg.template, arg.environ)>>
    /\ UNCHANGED <<applyVars, arg>>

NextResolve == CallResolve

SpecResolve == InitResolve /\ [][NextResolve]_vars

(***************************************************************************)
(* Discovery and grouping as a function of the source files                *)
(***************************************************************************)

\* what a fragment file may give as _targetPath
TargetPathValues ==
    {JStr(REL_A),
     JStr(<< >>),
     JArr(<< >>),
     JArr(<<JStr(<< >>)>>),
     JArr(<<JStr(REL_A), JStr(<< >>)>>),
     JArr(<<JStr(REL_A), JStr(REL_B)>>),
     JStr(TP_W),
     JNull}

\* the fragment files: with each of these values, and without the key
FragmentFiles ==
    {FileEntry(Frag(tp, "f", 1, NoExtras)) : tp \in TargetPathValues}
        \cup {FileEntry(JObj("f" :> JNum(1)))}

\* the source trees: one fragment file of FragmentFiles, and each of the
\* second fragment, the template and the override present or not
SourceTrees ==
    {[p \in Paths |->
        CASE p = FRAG_X -> x
          [] p = FRAG_Y -> y
          [] p = TPL_A -> t
          [] p = OV_A -> o
          [] OTHER -> NoEntry] :
        x \in FragmentFiles,
        y \in {NoEntry, FileEntry(Frag(JStr(REL_B), "g", 2, NoExtras))},
        t \in {NoEntry, FileEntry(JObj("k" :> JNum(1)))},
        o \in {NoEntry, FileEntry(JObj("k" :> JNum(2)))}}

InitDiscover ==
    /\ ApplyIdle
    /\ arg \in [files : SourceTrees, environ : Environments]
    /\ res = << >>

\* apply() up to the loop over the groups, on the source tree arg.files:
\* what discoverFragments returned, and the groups of groupByTarget
CallDiscover ==
    /\ res = << >>
    /\ \E found \in {discoverFragments(arg.files, arg.environ)} :
        res' = <<[fragments |-> found.fragments,
                  groups |->
                    groupByTarget(discoverTemplates(arg.files, arg.environ),
                                  filterFragmentsWithConditions(found.fragments),
                                  discoverOverrides(arg.files), arg.environ)]>>
    /\ UNCHANGED <<applyVars, arg>>

NextDiscover == CallDiscover

SpecDiscover == InitDiscover /\ [][NextDiscover]_vars

(***************************************************************************)
(* filterFragments as a function of the fragments and of the module links  *)
(***************************************************************************)

MODULE_M == <<"m">>
MODULE_N == <<"n">>
FRAGMENT_FILE == <<"c", ".", "f", "r", "a", "g", "m", "e", "n", "t", ".", "j", "s", "o", "n">>

\* a fragment of module m, and a fragment of a package whose path holds the
\* text atom-framework/modules/ further down
FRAG_M == PathJoin(PathJoin(atomModulesDir, MODULE_M), FRAGMENT_FILE)
FRAG_P == PathJoin(projectRoot, <<"p", "a", "c", "k", "a", "g", "e", "s", "/", "a", "t", "o", "m", "-", "f", "r", "a", "m", "e", "w", "o", "r", "k", "/", "m", "o", "d", "u", "l", "e", "s", "/", "m", "/", "c", ".", "f", "r", "a", "g", "m", "e", "n", "t", ".", "j", "s", "o", "n">>)

\* what <modulesDir>/m may be: nothing, a directory, or a symbolic link to
\* the module (relative, absolute, with a trailing separator), to another
\* module or to a path that does not exist
ModuleEntries ==
    {NoEntry, DirEntry,
     LinkEntry(<<".", ".", "/", "a", "t", "o", "m", "-", "f", "r", "a", "m", "e", "w", "o", "r", "k", "/", "m", "o", "d", "u", "l", "e", "s", "/", "m">>),
     LinkEntry(<<".", ".", "/", "a", "t", "o", "m", "-", "f", "r", "a", "m", "e", "w", "o", "r", "k", "/", "m", "o", "d", "u", "l", "e", "s", "/", "m", "/">>),
     LinkEntry(PathJoin(atomModulesDir, MODULE_M)),
     LinkEntry(<<".", ".", "/", "a", "t", "o", "m", "-", "f", "r", "a", "m", "e", "w", "o", "r", "k", "/", "m", "o", "d", "u", "l", "e", "s", "/", "n">>),
     LinkEntry(<<".", ".", "/", "g", "o", "n", "e">>)}

\* the trees: the directories of the modules m and n, and <modulesDir>/m
ModuleTrees ==
    {(PathJoin(atomModulesDir, MODULE_M) :> DirEntry)
        @@ (PathJoin(atomModulesDir, MODULE_N) :> DirEntry)
        @@ (PathJoin(modulesDir, MODULE_M) :> e) : e \in ModuleEntries}

ActiveOnlyValues == {Undefined, JBool(TRUE), JBool(FALSE), JNull}

\* a loaded fragment at the path, with the _activeOnly it declares
LoadedAt(fragmentPath, activeOnly) ==
    [path |-> fragmentPath,
     content |-> JObj("f" :> JNum(1)),
     metadata |-> [extractMetadata(JObj("_targetPath" :> JStr(REL_A)))
                    EXCEPT !._activeOnly = activeOnly],
     relativeDir |-> PathDirname(PathRelative(projectRoot, fragmentPath))]

FilterInputs ==
    [files : ModuleTrees,
     fragments : {<<LoadedAt(FRAG_M, a), LoadedAt(FRAG_X, Undefined), LoadedAt(FRAG_P, b)>> :
                    a \in ActiveOnlyValues, b \in ActiveOnlyValues}]

InitFilter ==
    /\ ApplyIdle
    /\ arg \in FilterInputs
    /\ res = << >>

\* the call filterFragments(fragments)
CallFilterFragments ==
    /\ res = << >>
    /\ res' = <<filterFragments(arg.files, arg.fragments)>>
    /\ UNCHANGED <<applyVars, arg>>

NextFilter == CallFilterFragments

SpecFilter == InitFilter /\ [][NextFilter]_vars

(***************************************************************************)
(* The merge of a single content by each registered strategy               *)
(***************************************************************************)

StrategyNames == {strategies[i].name : i \in DOMAIN strategies}

TEXT_A == <<"a">>
TEXT_AB == <<"a", "\n", "b", "\n">>

SingleContents ==
    {JObj("k" :> JNum(1)),
     JObj("k" :> JObj("m" :> JNum(1)) @@ "a" :> JArr(<<JNum(1), JNum(2)>>)),
     JObj("k" :> JNull),
     JObj("a" :> JArr(<<JNum(1), JNum(1)>>)),
     JObj("compilerOptions" :> JObj("strict" :> JBool(TRUE))),
     JObj("version" :> JStr(<<"3">>)
            @@ "services" :> JObj("web" :> JObj("image" :> JStr(<<"x">>)))),
     JObj("version" :> DEFAULT_COMPOSE_VERSION
            @@ "services" :> JObj("web" :> JObj("image" :> JStr(<<"x">>)))),
     JObj("version" :> DEFAULT_TASKS_VERSION
            @@ "tasks" :> JArr(<<JObj("label" :> JStr(<<"t">>))>>)
            @@ "inputs" :> JArr(<< >>)),
     JObj("version" :> DEFAULT_TASKS_VERSION
            @@ "tasks" :> JArr(<<JObj("label" :> JStr(<<"t">>))>>)),
     JObj("packages" :> JArr(<<JStr(<<"x">>)>>) @@ "catalogs" :> EmptyObj),
     JObj("packages" :> JArr(<<JStr(<<"x">>)>>)),
     JObj("stages" :> JArr(<<JStr(<<"b">>)>>)
            @@ "variables" :> JObj("A" :> JStr(<<"1">>))
            @@ "image" :> JStr(<<"n">>)
            @@ "build" :> JObj("stage" :> JStr(<<"b">>))),
     JObj("build" :> JObj("stage" :> JStr(<<"b">>))),
     JStr(TEXT_A), JStr(TEXT_AB), JStr(<<"a", "\n", "\n", "a", "\n">>)}

\* strategy.validate(content).valid of the strategy registered as `name`
ValidFor(name, content) ==
    CASE name = "replace" -> TRUE
      [] name = "append-lines" -> content.t = "str"
      [] OTHER -> TypeofObject(content) /\ content # JNull

\* the context mergeAndWrite builds for the target and the paths of the
\* sources
MergeContext(targetPath, sourcePaths) ==
    [targetPath |-> targetPath,
     relativePath |-> PathRelative(projectRoot, targetPath),
     sourcePaths |-> sourcePaths]

SingleInputs ==
    {x \in [name : StrategyNames, content : SingleContents] :
        ValidFor(x.name, x.content)}

InitSingle ==
    /\ ApplyIdle
    /\ arg \in SingleInputs
    /\ res = << >>

\* strategy.merge([content], context)
CallMergeSingle ==
    /\ res = << >>
    /\ res' = <<StrategyMergeIn(arg.name, <<arg.content>>,
                               MergeContext(T_A, <<TPL_A>>))>>
    /\ UNCHANGED <<applyVars, arg>>

NextSingle == CallMergeSingle

SpecSingle == InitSingle /\ [][NextSingle]_vars

(***************************************************************************)
(* Deep merge of two contents, and of its own result                       *)
(***************************************************************************)

DeepContents ==
    {EmptyObj,
     JObj("k" :> JNum(1)),
     JObj("k" :> JNull),
     JObj("k" :> JObj("m" :> JNum(1) @@ "n" :> JNull)),
     JObj("k" :> JObj("m" :> JObj("z" :> JNull))),
     JObj("k" :> JArr(<<JNum(1), JNum(1), JNum(2)>>)),
     JObj("k" :> JArr(<<JNum(2), JNum(3), JNum(2)>>)),
     JObj("k" :> JArr(<<JObj("m" :> JNull), JObj("m" :> JNull), JNull>>)),
     JObj("j" :> JArr(<<JArr(<<JNum(1), JNum(1)>>), JStr(<<"x">>)>>) @@ "k" :> JNull),
     JObj("j" :> JObj("a" :> JArr(<<JNum(1), JNum(1)>>) @@ "o" :> EmptyObj)),
     JObj("j" :> JNull @@ "k" :> JNum(2))}

InitDeep ==
    /\ ApplyIdle
    /\ arg \in DeepContents \X DeepContents
    /\ res = << >>

\* merge([a, b])
CallDeepMerge ==
    /\ res = << >>
    /\ res' = <<DeepMergeStrategy_merge(arg)>>
    /\ UNCHANGED <<applyVars, arg>>

\* merge([r]) for the result r of the merge before
CallDeepMergeAgain ==
    /\ Len(res) = 1
    /\ res[1] # MergeError
    /\ res' = <<res[1], DeepMergeStrategy_merge(<<res[1]>>)>>
    /\ UNCHANGED <<applyVars, arg>>

NextDeep == CallDeepMerge \/ CallDeepMergeAgain

SpecDeep == InitDeep /\ [][NextDeep]_vars

(***************************************************************************)
(* The merge of texts by lines                                             *)
(***************************************************************************)

AppendTexts ==
    {<< >>, <<"\n">>, <<" ", "\n", "\t">>,
     <<"a">>, <<"a", "\n">>,
     <<"a", "\n", "b">>, <<"b", "\n", "a", "\n">>,
     <<"a", "\n", "\n", "a">>,
     <<" ", "a", "\n", "a", " ", "\n", "a">>,
     <<"b", "\n", "a", "\n", "b", "\n", "c">>}

AppendInputs ==
    {<<JStr(t)>> : t \in AppendTexts}
        \cup {<<JStr(t), JStr(u)>> : t \in AppendTexts, u \in AppendTexts}

InitAppend ==
    /\ ApplyIdle
    /\ arg \in AppendInputs
    /\ res = << >>

\* AppendLinesStrategy.merge(sources)
CallAppendLines ==
    /\ res = << >>
    /\ res'= <<AppendLinesStrategy_merge(arg)>>
    /\ UNCHANGED <<applyVars, arg>>

NextAppend == CallAppendLines

SpecAppend == InitAppend /\ [][NextAppend]_vars

(***************************************************************************)
(* The merge of Docker Compose files                                       *)
(***************************************************************************)

ComposeContents ==
    {EmptyObj,
     JObj("version" :> JStr(<<"3">>)),
     JObj("version" :> JStr(<<"2">>)
            @@ "services" :> JObj("web" :> JObj("image" :> JStr(<<"x">>)))),
     JObj("version" :> DEFAULT_COMPOSE_VERSION
            @@ "services" :> JObj("db" :> JObj("image" :> JStr(<<"y">>)))),
     JObj("services" :> JObj("web" :> JObj("image" :> JStr(<<"z">>)
                                            @@ "ports" :> JArr(<<JNum(1)>>)))),
     JObj("services" :> JObj("web" :> JObj("build" :> JNull))),
     JObj("volumes" :> JObj("data" :> EmptyObj)),
     JObj("networks" :> JObj("net" :> EmptyObj) @@ "name" :> JStr(<<"p">>))}

ComposeInputs ==
    {<<a>> : a \in ComposeContents}
        \cup {<<a, b>> : a \in ComposeContents, b \in ComposeContents}

InitCompose ==
    /\ ApplyIdle
    /\ arg \in ComposeInputs
    /\ res = << >>

\* DockerComposeMergeStrategy.merge(sources)
CallComposeMerge ==
    /\ res = << >>
    /\ res' = <<DockerComposeMergeStrategy_merge(arg)>>
    /\ UNCHANGED <<applyVars, arg>>

NextCompose == CallComposeMerge

SpecCompose == InitCompose /\ [][NextCompose]_vars

(***************************************************************************)
(* The merge of GitLab CI files                                            *)
(***************************************************************************)

T_GITLAB == PathJoin(projectRoot, DOT_GITLAB_CI_YML)

\* where the sources of .gitlab-ci.yml lie: the template, fragments of a
\* package, of a nested module directory and of packages/ itself, and the
\* override next to the target
GitlabPaths ==
    {PathJoin(templatesDir, <<"_", "_", ".", "g", "i", "t", "l", "a", "b", "-", "c", "i", ".", "y", "m", "l">>),
     PathJoin(projectRoot, <<"p", "a", "c", "k", "a", "g", "e", "s", "/", "a", "p", "i", "/", "c", "i", ".", "f", "r", "a", "g", "m", "e", "n", "t", ".", "y", "m", "l">>),
     PathJoin(projectRoot, <<"m", "o", "d", "u", "l", "e", "s", "/", "a", "u", "/", "e", "2", "e", "/", "c", "i", ".", "f", "r", "a", "g", "m", "e", "n", "t", ".", "y", "m", "l">>),
     PathJoin(projectRoot, <<"p", "a", "c", "k", "a", "g", "e", "s", "/", "c", "i", ".", "f", "r", "a", "g", "m", "e", "n", "t", ".", "y", "m", "l">>),
     PathJoin(projectRoot, <<".", "g", "i", "t", "l", "a", "b", "-", "c", "i", ".", "o", "v", "e", "r", "r", "i", "d", "e", "s", ".", "y", "m", "l">>)}

JOB == JObj("script" :> JArr(<<JStr(<<"x">>)>>))

GitlabContents ==
    {JObj("stages" :> JArr(<<JStr(<<"b">>)>>)
            @@ "variables" :> JObj("A" :> JStr(<<"1">>))
            @@ "image" :> JStr(<<"n">>)
            @@ "build" :> JOB),
     JObj("stages" :> JArr(<<JStr(<<"t">>), JStr(<<"b">>)>>)
            @@ "variables" :> JObj("A" :> JStr(<<"9">>))
            @@ "cache" :> EmptyObj
            @@ "lint" :> JOB),
     JObj("stages" :> JArr(<<JStr(<<"d">>)>>)
            @@ "variables" :> JObj("B" :> JStr(<<"2">>))
            @@ "deploy" :> JOB),
     JObj("test" :> JOB),
     JObj("build" :> JObj("stage" :> JStr(<<"b">>)) @@ "image" :> JStr(<<"m">>))}

GitlabSources == [content : GitlabContents, path : GitlabPaths]

GitlabInputs ==
    {<<a>> : a \in GitlabSources}
        \cup {<<a, b>> : a \in GitlabSources, b \in GitlabSources}

InitGitlab ==
    /\ ApplyIdle
    /\ arg \in GitlabInputs
    /\ res = << >>

\* GitLabCIMergeStrategy.merge(contents, context) as mergeAndWrite calls it
CallGitlabMerge ==
    /\ res = << >>
    /\ res' = <<GitLabCIMergeStrategy_merge(
                    [i \in DOMAIN arg |-> arg[i].content],
                    MergeContext(T_GITLAB, [i \in DOMAIN arg |-> arg[i].path]))>>
    /\ UNCHANGED <<applyVars, arg>>

NextGitlab == CallGitlabMerge

SpecGitlab == InitGitlab /\ [][NextGitlab]_vars

(***************************************************************************)
(* The smart diff of two trees, and the merge of the diff over the         *)
(* template                                                                *)
(***************************************************************************)

DiffTrees ==
    {EmptyObj,
     JObj("a" :> JNum(1)),
     JObj("a" :> JNum(1) @@ "b" :> JNum(2)),
     JObj("a" :> JNum(1) @@ "b" :> JObj("c" :> JNum(2))),
     JObj("a" :> JNum(1) @@ "b" :> JObj("c" :> JNum(3) @@ "d" :> JNum(4))),
     JObj("a" :> JNum(1) @@ "b" :> EmptyObj),
     JObj("a" :> JArr(<<JNum(1), JNum(2)>>)),
     JObj("a" :> JArr(<<JNum(2)>>)),
     JObj("a" :> JArr(<<JObj("c" :> JNum(2))>>) @@ "b" :> JObj("c" :> JArr(<<JNum(1)>>))),
     JObj("a" :> JNull @@ "b" :> JObj("c" :> JNum(2) @@ "e" :> JObj("f" :> JNull))),
     JObj("b" :> JObj("c" :> JNum(2) @@ "e" :> JObj("f" :> JNum(1))))}

InitDiff ==
    /\ ApplyIdle
    /\ arg \in DiffTrees \X DiffTrees
    /\ res = << >>

\* smartJsonDiff(template, current)
CallSmartDiff ==
    /\ res = << >>
    /\ res' = <<smartJsonDiff(arg[1], arg[2])>>
    /\ UNCHANGED <<applyVars, arg>>

\* the deep merge of the template and of the override that extract wrote:
\* no override is written when the diff holds nothing
CallMergeBack ==
    /\ Len(res) = 1
    /\ res' = <<res[1],
                DeepMergeStrategy_merge(IF noDifferences(res[1]) THEN <<arg[1]>>
                                        ELSE <<arg[1], res[1]>>)>>
    /\ UNCHANGED <<applyVars, arg>>

NextDiff == CallSmartDiff \/ CallMergeBack

SpecDiff == InitDiff /\ [][NextDiff]_vars

(***************************************************************************)
(* The merge of contents of the wrong type                                 *)
(***************************************************************************)

\* what a source may hold: a parsed JSON or YAML document, or the text of a
\* text fragment
TypedContents ==
    {JObj("k" :> JNum(1)),
     JObj("j" :> JArr(<<JNum(1)>>)),
     JStr(<<"a", "b">>),
     JStr(<<"a", "\n", "b">>),
     JNum(7),
     JArr(<<JStr(<<"x">>)>>)}

TypedStrategies == {"deep-merge", "yaml-merge", "toml-merge", "append-lines"}

TypedInputs ==
    [name : TypedStrategies,
     sources : {<<a, b>> : a \in TypedContents, b \in TypedContents}]

InitTyped ==
    /\ ApplyIdle
    /\ arg \in TypedInputs
    /\ res = << >>

\* the steps of mergeAndWrite from the choice of the strategy to the merged
\* value: strategy.merge(contents, context)
CallMergeContents ==
    /\ res = << >>
    /\ res' = <<StrategyMergeIn(arg.name, arg.sources, MergeContext(T_A, <<TPL_A, OV_A>>))>>
    /\ UNCHANGED <<applyVars, arg>>

NextTyped == CallMergeContents

SpecTyped == InitTyped /\ [][NextTyped]_vars

(***************************************************************************)
(* Migrator.extract and BackupManager.createBackup                         *)
(***************************************************************************)

DOT_OVERRIDES == <<".", "o", "v", "e", "r", "r", "i", "d", "e", "s">>

\* path.basename(p, ext)
BasenameWithout(p, ext) ==
    IF ext # << >> /\ EndsWith(PathBasename(p), ext) /\ PathBasename(p) # ext
    THEN Sub(PathBasename(p), 1, Len(PathBasename(p)) - Len(ext))
    ELSE PathBasename(p)

\* the override file path Migrator.extract writes for a target
extractOverridePath(targetPath) ==
    PathJoin(PathDirname(targetPath),
             BasenameWithout(targetPath, PathExtname(targetPath))
                \o DOT_OVERRIDES \o PathExtname(targetPath))

\* OverrideCreator.getOverridePath(targetPath), and the same code in
\* FileManager.getOverridePath(filePath): path.parse gives dir, name (the
\* base name without its extension) and ext
getOverridePath(targetPath) ==
    LET dir == PathDirname(targetPath)
        ext == PathExtname(targetPath)
        name == BasenameWithout(targetPath, ext)
        extWithoutDot == Sub(ext, 2, Len(ext))
    IN  PathJoin(dir, name \o DOT_OVERRIDES
                        \o (IF extWithoutDot # << >> THEN DOT \o extWithoutDot
                            ELSE << >>))

\* the first pass of extract: the targets of the templates that exist
RECURSIVE filesToBackup(_, _, _)
filesToBackup(files, templates, environ) ==
    IF templates = << >> THEN << >>
    ELSE (IF existsSync(files, templateGetTargetPath(Head(templates).path, << >>, environ))
          THEN <<templateGetTargetPath(Head(templates).path, << >>, environ)>>
          ELSE << >>)
            \o filesToBackup(files, Tail(templates), environ)

\* BackupManager.createBackup(files): the manifest. A file is copied and its
\* hash recorded; the hash is modelled by the content it is computed from.
\* The copies lie under .config-manager/backups, outside the paths of the
\* model.
RECURSIVE manifestFiles(_, _)
manifestFiles(files, paths) ==
    IF paths = << >> THEN << >>
    ELSE (IF files[Follow(files, Head(paths))].kind = "file"
          THEN <<[original |-> Head(paths),
                  hash |-> files[Follow(files, Head(paths))].content]>>
          ELSE << >>)
            \o manifestFiles(files, Tail(paths))

createBackup(files, paths) == [files |-> manifestFiles(files, paths)]

\* the body of the second loop of extract for one template: the file system
\* after it
extractTemplate(files, template, environ, options) ==
    LET targetPath == templateGetTargetPath(template.path, << >>, environ)
        overridePath == extractOverridePath(targetPath)
    IN  IF ~existsSync(files, targetPath) THEN files
        ELSE IF files[Follow(files, targetPath)].kind # "file" THEN files
        ELSE IF noDifferences(extractDiff(options.strategy, template.content,
                                          files[Follow(files, targetPath)].content))
        THEN files
        ELSE IF ~options.force /\ existsSync(files, overridePath) THEN files
        ELSE writeFile(files, overridePath,
                       extractDiff(options.strategy, template.content,
                                   files[Follow(files, targetPath)].content)).fs

ExtractOptions ==
    [strategy : {"smart-extract", "preserve-all"}, force : BOOLEAN, backup : BOOLEAN]

ExtractTemplates == {JObj("k" :> JNum(1)), JObj("k" :> JNum(1) @@ "b" :> JObj("c" :> JNum(2)))}
ExtractTargets ==
    {NoEntry,
     FileEntry(JObj("k" :> JNum(1))),
     FileEntry(JObj("k" :> JNum(2) @@ "n" :> JNum(3))),
     FileEntry(JObj("k" :> JNum(1) @@ "b" :> JObj("c" :> JNum(2) @@ "d" :> JNum(4))))}
ExtractOverrides == {NoEntry, FileEntry(OldContent)}

InitExtract ==
    /\ fs \in [Paths -> {NoEntry} \cup ExtractTargets \cup ExtractOverrides
                    \cup {FileEntry(c) : c \in ExtractTemplates}]
    /\ fs[TPL_A] \in {FileEntry(c) : c \in ExtractTemplates}
    /\ fs[T_A] \in ExtractTargets
    /\ fs[OV_A] \in ExtractOverrides
    /\ \A p \in Paths \ {TPL_A, T_A, OV_A} : fs[p] = NoEntry
    /\ pc = "idle"
    /\ opts = NoOptions
    /\ env = ProcessEnv
    /\ groups = << >>
    /\ queue = << >>
    /\ processed = {}
    /\ failedTargets = {}
    /\ strategyUsed = << >>
    /\ thrown = << >>
    /\ fsStart = fs
    /\ prevGenerated = {}
    /\ runs = 0
    /\ regenerating = FALSE
    /\ arg \in ExtractOptions
    /\ res = << >>

\* extract(options) up to the end of the backup: the templates are
\* discovered, the existing targets are collected and backed up
ExtractBackup ==
    /\ pc = "idle"
    /\ pc' = "extracting"
    /\ queue' = discoverTemplates(fs, env)
    /\ res' = IF arg.backup /\ filesToBackup(fs, discoverTemplates(fs, env), env) # << >>
              THEN <<createBackup(fs, filesToBackup(fs, discoverTemplates(fs, env), env))>>
              ELSE << >>
    /\ UNCHANGED <<fs, opts, env, groups, processed, failedTargets, strategyUsed,
                   thrown, fsStart, prevGenerated, runs, regenerating, arg>>

\* one round of the second loop of extract
ExtractTemplate ==
    /\ pc = "extracting"
    /\ queue # << >>
    /\ fs' = extractTemplate(fs, Head(queue), env, arg)
    /\ queue' = Tail(queue)
    /\ UNCHANGED <<pc, opts, env, groups, processed, failedTargets, strategyUsed,
                   thrown, fsStart, prevGenerated, runs, regenerating, arg, res>>

\* the end of extract
ExtractDone ==
    /\ pc = "extracting"
    /\ queue = << >>
    /\ pc' = "done"
    /\ UNCHANGED <<fs, opts, env, groups, queue, processed, failedTargets, strategyUsed,
                   thrown, fsStart, prevGenerated, runs, regenerating, arg, res>>

NextExtract == ExtractBackup \/ ExtractTemplate \/ ExtractDone

SpecExtract == InitExtract /\ [][NextExtract]_vars

(***************************************************************************)
(* The deep merge of a source that sets keys to null                       *)
(***************************************************************************)

NullBases ==
    {EmptyObj,
     JObj("k" :> JNum(1)),
     JObj("k" :> JObj("m" :> JNum(1))),
     JObj("k" :> JArr(<<JNum(1)>>)),
     JObj("k" :> JObj("m" :> JObj("z" :> JNum(1)))),
     JObj("k" :> JObj("m" :> JArr(<<JNum(1)>>))),
     JObj("j" :> JNum(1))}

NullOverrides ==
    {JObj("k" :> JNull),
     JObj("k" :> JObj("m" :> JNull)),
     JObj("k" :> JObj("m" :> JObj("z" :> JNull))),
     JObj("j" :> JNull @@ "k" :> JNum(2)),
     JObj("k" :> JObj("n" :> JNull)),
     JObj("k" :> JNull @@ "j" :> JObj("m" :> JNull))}

NullInputs ==
    [name : {"deep-merge", "yaml-merge", "toml-merge"},
     sources : {<<a, b>> : a \in NullBases, b \in NullOverrides}]

InitNull ==
    /\ ApplyIdle
    /\ arg \in NullInputs
    /\ res = << >>

\* strategy.merge([base, override]) of the strategy registered as arg.name
CallNullMerge ==
    /\ res = << >>
    /\ res' = <<StrategyMerge(arg.name, arg.sources)>>
    /\ UNCHANGED <<applyVars, arg>>

NextNull == CallNullMerge

SpecNull == InitNull /\ [][NextNull]_vars

(***************************************************************************)
(* The merge of VS Code tasks files in two orders of the sources           *)
(***************************************************************************)

TaskOf(label, command) ==
    JObj("label" :> JStr(label) @@ "command" :> JStr(command))

TasksContents ==
    {JObj("tasks" :> JArr(<<TaskOf(<<"b">>, <<"x">>), TaskOf(<<"a">>, <<"x">>)>>)),
     JObj("tasks" :> JArr(<<TaskOf(<<"a">>, <<"y">>)>>)),
     JObj("tasks" :> JArr(<<TaskOf(<<"a", "b">>, <<"x">>)>>)
            @@ "inputs" :> JArr(<<JObj("id" :> JStr(<<"i">>) @@ "type" :> JStr(<<"p">>))>>)),
     JObj("tasks" :> JArr(<<JObj("command" :> JStr(<<"x">>))>>)),
     JObj("tasks" :> JArr(<<JObj("command" :> JStr(<<"y">>))>>)
            @@ "inputs" :> JArr(<<JObj("id" :> JStr(<<"h">>))>>)),
     JObj("inputs" :> JArr(<<JObj("id" :> JStr(<<"i">>) @@ "type" :> JStr(<<"q">>))>>)),
     JObj("version" :> DEFAULT_TASKS_VERSION @@ "tasks" :> JArr(<<TaskOf(<<"c">>, <<"x">>)>>))}

InitTasks ==
    /\ ApplyIdle
    /\ arg \in TasksContents \X TasksContents
    /\ res = << >>

\* the merge and the post-processing as mergeAndWrite runs them
TasksFinal(sources) ==
    VSCodeTasksMergeStrategy_postProcess(VSCodeTasksMergeStrategy_merge(sources))

\* the sources discovered in one order
CallTasksMerge ==
    /\ res = << >>
    /\ res' = <<TasksFinal(arg)>>
    /\ UNCHANGED <<applyVars, arg>>

\* the same sources discovered in the other order
CallTasksMergeReordered ==
    /\ Len(res) = 1
    /\ res' = <<res[1], TasksFinal(<<arg[2], arg[1]>>)>>
    /\ UNCHANGED <<applyVars, arg>>

NextTasks == CallTasksMerge \/ CallTasksMergeReordered

SpecTasks == InitTasks /\ [][NextTasks]_vars

(***************************************************************************)
(* The cache of getActiveModules while the links under modules/ change     *)
(***************************************************************************)

ModuleNames == {MODULE_M, MODULE_N}

\* what may lie at <modulesDir>/m: nothing, a directory, a link to the
\* module, to another module, to nothing
LinkChoices(name) ==
    {NoEntry, DirEntry,
     LinkEntry(PathJoin(atomModulesDir, name)),
     LinkEntry(PathJoin(atomModulesDir, <<"o">>)),
     LinkEntry(<<".", ".", "/", "g", "o", "n", "e">>)}

\* what may lie at <modulesDir>/n
FewLinkChoices(name) ==
    {NoEntry, LinkEntry(PathJoin(atomModulesDir, name))}

\* the trees: the module directories of the framework, <modulesDir> as a
\* directory or missing, and under a directory the two entries
CacheTrees ==
    {(PathJoin(atomModulesDir, MODULE_M) :> DirEntry)
        @@ (PathJoin(atomModulesDir, MODULE_N) :> DirEntry)
        @@ (PathJoin(atomModulesDir, <<"o">>) :> DirEntry)
        @@ (modulesDir :> d)
        @@ (PathJoin(modulesDir, MODULE_M) :> m)
        @@ (PathJoin(modulesDir, MODULE_N) :> n) :
        d \in {DirEntry}, m \in LinkChoices(MODULE_M), n \in FewLinkChoices(MODULE_N)}
    \cup
    {(PathJoin(atomModulesDir, MODULE_M) :> DirEntry)
        @@ (PathJoin(atomModulesDir, MODULE_N) :> DirEntry)
        @@ (PathJoin(atomModulesDir, <<"o">>) :> DirEntry)
        @@ (modulesDir :> NoEntry)
        @@ (PathJoin(modulesDir, MODULE_M) :> NoEntry)
        @@ (PathJoin(modulesDir, MODULE_N) :> NoEntry)}

\* arg is the filter and its world: the tree, the cache, whether no call has
\* computed since construction or clearCache(), and the tree of the call
\* that computed; res is what the last call returned and the tree it saw
InitCache ==
    /\ ApplyIdle
    /\ \E files \in CacheTrees :
        arg = [files |-> files, activeModulesCache |-> << >>,
               fresh |-> TRUE, computedOn |-> files]
    /\ res = << >>

\* the symlink graph changes
ChangeLinks ==
    /\ \E files \in CacheTrees \ {arg.files} :
        arg' = [arg EXCEPT !.files = files]
    /\ UNCHANGED <<applyVars, res>>

\* a call of getActiveModules()
GetActiveModules ==
    /\ arg' = [arg EXCEPT
                !.activeModulesCache =
                    getActiveModules(arg.files, arg.activeModulesCache).cache,
                !.fresh = FALSE,
                !.computedOn = IF arg.fresh THEN arg.files ELSE @]
    /\ res' = <<getActiveModules(arg.files, arg.activeModulesCache).returns,
                arg.files>>
    /\ UNCHANGED applyVars

\* a call of clearCache()
ClearCache ==
    /\ arg' = [arg EXCEPT !.activeModulesCache = clearCache, !.fresh = TRUE]
    /\ UNCHANGED <<applyVars, res>>

NextCache == ChangeLinks \/ GetActiveModules \/ ClearCache

SpecCache == InitCache /\ [][NextCache]_vars

(***************************************************************************)
(* The override path of a target and the target path of an override        *)
(***************************************************************************)

RoundTripDirs ==
    {projectRoot,
     PathJoin(projectRoot, <<"p", "a", "c", "k", "a", "g", "e", "s", "/", "x">>),
     PathJoin(projectRoot, <<".", "v", "s", "c", "o", "d", "e">>)}

\* base names of targets: with one extension, with two, with none, and
\* names that begin with "."
TargetNames ==
    {<<"a", ".", "j", "s", "o", "n">>,
     <<"b", ".", "y", "m", "l">>,
     <<"a", ".", "t", "a", "r", ".", "g", "z">>,
     <<"t", "s", "c", "o", "n", "f", "i", "g", ".", "b", "a", "s", "e", ".", "j", "s", "o", "n">>,
     <<"D", "o", "c", "k", "e", "r", "f", "i", "l", "e">>,
     <<".", "g", "i", "t", "i", "g", "n", "o", "r", "e">>,
     <<".", "e", "n", "v">>,
     <<".", "e", "s", "l", "i", "n", "t", "r", "c", ".", "j", "s", "o", "n">>}

\* base names of override files a project may hold
OverrideNames ==
    {<<"a", ".", "o", "v", "e", "r", "r", "i", "d", "e", "s", ".", "j", "s", "o", "n">>,
     <<"b", ".", "o", "v", "e", "r", "r", "i", "d", "e", "s", ".", "y", "m", "l">>,
     <<"a", ".", "o", "v", "e", "r", "r", "i", "d", "e", "s", ".", "t", "a", "r", ".", "g", "z">>,
     <<"a", ".", "o", "v", "e", "r", "r", "i", "d", "e", "s", ".", "j", "s", "o", "n", ".", "b", "a", "k">>,
     <<"D", "o", "c", "k", "e", "r", "f", "i", "l", "e", ".", "o", "v", "e", "r", "r", "i", "d", "e", "s">>}

Derivations == {"OverrideCreator", "FileManager", "Migrator"}

\* arg: a target path and the class that derives its override path, or the
\* path of an override file of the project ("discovery")
RoundTripInputs ==
    [by : Derivations,
     path : {PathJoin(d, n) : d \in RoundTripDirs, n \in TargetNames}]
    \cup
    [by : {"discovery"},
     path : {PathJoin(d, n) : d \in RoundTripDirs, n \in OverrideNames}]

InitRoundTrip ==
    /\ ApplyIdle
    /\ arg \in RoundTripInputs
    /\ res = << >>

\* the override path the class derives for the target
DeriveOverridePath ==
    /\ res = << >>
    /\ arg.by \in Derivations
    /\ res' = <<IF arg.by = "Migrator" THEN extractOverridePath(arg.path)
                ELSE getOverridePath(arg.path)>>
    /\ UNCHANGED <<applyVars, arg>>

\* discoverOverrides finds the override file of the project
DiscoverOverride ==
    /\ res = << >>
    /\ arg.by = "discovery"
    /\ MatchesOverrideGlob(arg.path)
    /\ res' = <<arg.path>>
    /\ UNCHANGED <<applyVars, arg>>

\* getTargetPath of the override path
MapBack ==
    /\ Len(res) = 1
    /\ res' = Append(res, overrideGetTargetPath(res[1]))
    /\ UNCHANGED <<applyVars, arg>>

NextRoundTrip == DeriveOverridePath \/ DiscoverOverride \/ MapBack

SpecRoundTrip == InitRoundTrip /\ [][NextRoundTrip]_vars

(***************************************************************************)
(* The watch command: the events of the watcher and regenerate()           *)
(***************************************************************************)

\* the source files whose events the watcher delivers in the model
WatchedPaths == {TPL_A, OV_A, FRAG_Y}

\* regenerate() without its first line `if (regenerating) return;`
regenerate_unguarded ==
    /\ regenerating' = TRUE
    /\ pc' = "starting"
    /\ opts' = NoOptions
    /\ env' = << >>
    /\ groups' = << >>
    /\ queue' = << >>
    /\ processed' = {}
    /\ failedTargets' = {}
    /\ strategyUsed' = << >>
    /\ thrown' = << >>
    /\ prevGenerated' = Generated

\* regenerate(): it returns at once while a run is in progress; otherwise it
\* sets the flag and calls apply() of a new ConfigManager (no dryRun, no
\* filter), which runs up to its first await
regenerate ==
    IF regenerating
    THEN UNCHANGED <<pc, opts, env, groups, queue, processed, failedTargets,
                     strategyUsed, thrown, prevGenerated, regenerating>>
    ELSE /\ regenerating' = TRUE
         /\ pc' = "starting"
         /\ opts' = NoOptions
         /\ env' = << >>
         /\ groups' = << >>
         /\ queue' = << >>
         /\ processed' = {}
         /\ failedTargets' = {}
         /\ strategyUsed' = << >>
         /\ thrown' = << >>
         /\ prevGenerated' = Generated

\* watcher.on('add'): a watched file is created
OnAdd(p, content) ==
    /\ fs[p].kind = "none"
    /\ fs' = [fs EXCEPT ![p] = FileEntry(content)]
    /\ regenerate
    /\ UNCHANGED <<fsStart, runs, arg, res>>

\* watcher.on('change'): a watched file is rewritten
OnChange(p, content) ==
    /\ fs[p].kind = "file"
    /\ fs[p] # FileEntry(content)
    /\ fs' = [fs EXCEPT ![p] = FileEntry(content)]
    /\ regenerate
    /\ UNCHANGED <<fsStart, runs, arg, res>>

\* watcher.on('unlink'): a watched file is deleted
OnUnlink(p) ==
    /\ fs[p].kind = "file"
    /\ fs' = [fs EXCEPT ![p] = NoEntry]
    /\ regenerate
    /\ UNCHANGED <<fsStart, runs, arg, res>>

\* apply() of the run that regenerate() started: discovery, filtering and
\* grouping read the file system as it is now
WatchApply(environ) ==
    /\ pc = "starting"
    /\ \E found \in {discoverFragments(fs, environ)} :
        \E targetGroups \in
                {groupByTarget(discoverTemplates(fs, environ),
                               filterFragmentsWithConditions(found.fragments),
                               discoverOverrides(fs), environ)} :
            /\ groups' = targetGroups
            /\ queue' = targetGroups
            /\ thrown' = found.thrown
    /\ pc' = "running"
    /\ env' = environ
    /\ fsStart' = fs
    /\ UNCHANGED <<fs, opts, processed, failedTargets, strategyUsed,
                   prevGenerated, runs, regenerating, arg, res>>

\* the catch and finally of regenerate(): what apply() throws is logged, and
\* the flag is cleared
RegenerateFinally ==
    /\ regenerating
    /\ pc \in {"done", "failed"}
    /\ regenerating' = FALSE
    /\ UNCHANGED <<fs, pc, opts, env, groups, queue, processed, failedTargets,
                   strategyUsed, thrown, fsStart, prevGenerated, runs, arg, res>>

NextWatch ==
    \/ \E p \in WatchedPaths : \E c \in Variants(p) : OnAdd(p, c)
    \/ \E p \in WatchedPaths : \E c \in Variants(p) : OnChange(p, c)
    \/ \E p \in WatchedPaths : OnUnlink(p)
    \/ \E e \in Environments : WatchApply(e)
    \/ ProcessTarget
    \/ ApplyDone
    \/ RegenerateFinally

SpecWatch == Init /\ [][NextWatch]_vars

(***************************************************************************)
(* Properties                                                              *)
(***************************************************************************)

\* the run has ended: apply() returned, or it threw
RunEnded == pc \in {"done", "failed"}

\* the run is under way or has ended
InRun == pc \in {"running", "done", "failed"}

\* the source declares a merge strategy name
Declares(source) ==
    /\ source.metadata # Undefined
    /\ source.metadata._mergeStrategy # Undefined
    /\ source.metadata._mergeStrategy.t = "str"
    /\ source.metadata._mergeStrategy.s # << >>

\* the source sets the copy flag
SetsCopy(source) ==
    /\ source.metadata # Undefined
    /\ source.metadata._copy = JBool(TRUE)

\* the group of the run for the target t, if any
HasGroup(t) == \E i \in DOMAIN groups : groups[i].targetPath = t
GroupOf(t) == groups[CHOOSE i \in DOMAIN groups : groups[i].targetPath = t]

\* what the strategy `name` makes of the sources of a group, as written
MergedFile(t, name, sources) ==
    FileEntry(WrittenContent(ToLowerCase(PathExtname(t)),
                             StrategyMerge(name,
                                           [i \in DOMAIN sources |->
                                                sources[i].content])))

\* C1: after an apply() that completed without error and with dry-run off,
\* the target of every group with exactly one source that does not set the
\* copy flag is a symbolic link resolving to that source, and the target of
\* every group with two or more sources is a regular file holding the merged
\* output, whatever was at the target before the run.
C1_LinkOrMergedFile ==
    pc = "done" /\ ~opts.dryRun =>
        \A i \in DOMAIN groups :
            LET t == groups[i].targetPath
                sources == groups[i].sources
            IN  /\ Len(sources) = 1 /\ ~SetsCopy(sources[1]) =>
                    /\ fs[t].kind = "link"
                    /\ PathJoin(PathDirname(t), fs[t].to) = sources[1].path
                /\ Len(sources) >= 2 =>
                    /\ t \in DOMAIN strategyUsed
                    /\ fs[t] = MergedFile(t, strategyUsed[t], sources)

\* C1 happens: a second run has ended without error, dry-run off; it merged
\* a group over the symbolic link an earlier run left at the target, and it
\* linked a single source over the regular file found at the target
C1_Witness ==
    /\ pc = "done" /\ ~opts.dryRun /\ runs = 2
    /\ \E i \in DOMAIN groups :
        /\ Len(groups[i].sources) >= 2
        /\ fsStart[groups[i].targetPath].kind = "link"
        /\ fs[groups[i].targetPath].kind = "file"
    /\ \E i \in DOMAIN groups :
        /\ Len(groups[i].sources) = 1
        /\ ~SetsCopy(groups[i].sources[1])
        /\ fsStart[groups[i].targetPath].kind = "file"
        /\ fs[groups[i].targetPath].kind = "link"

\* the merge order of the types of sources
TypeRank(type) ==
    CASE type = "template" -> 0
      [] type = "fragment" -> 1
      [] type = "override" -> 2

\* C2: in every group built by groupByTarget the merge order is templates,
\* then fragments, then overrides, for every priority a fragment declares:
\* no source stands before a source of a lower rank.
C2_TemplatesFragmentsOverrides ==
    \A i \in DOMAIN groups :
        \A j, k \in DOMAIN groups[i].sources :
            j < k => TypeRank(groups[i].sources[j].type)
                        <= TypeRank(groups[i].sources[k].type)

\* the name of the first source, in merge order, that declares a strategy
FirstDeclared(sources) ==
    sources[CHOOSE i \in DOMAIN sources :
                Declares(sources[i]) /\ \A j \in 1..(i - 1) : ~Declares(sources[j])
           ].metadata._mergeStrategy.s

\* the name is a key of the registry of strategies
Registered(key) == \E i \in DOMAIN strategies : strategies[i].key = key
RegisteredAs(key) ==
    strategies[CHOOSE i \in DOMAIN strategies : strategies[i].key = key].name

\* C3 (amended): when a multi-source group is merged, the strategy used is
\* the one registered under the name that the first declaring source (in
\* merge order) declares, if that name is registered; it is the strategy
\* auto-detected from the target path when no source declares a name, and
\* also when the declared name is not registered.
C3_DeclaredIfRegistered ==
    \A t \in DOMAIN strategyUsed :
        LET sources == GroupOf(t).sources
        IN  IF (\E i \in DOMAIN sources : Declares(sources[i]))
               /\ Registered(FirstDeclared(sources))
            THEN strategyUsed[t] = RegisteredAs(FirstDeclared(sources))
            ELSE strategyUsed[t] = autoDetect(ToLowerCase(t))

\* C3 happens: a run has merged b.yml with the strategy "replace" that the
\* second source of the group declares, where auto-detection says yaml-merge
C3_Witness ==
    /\ pc = "done"
    /\ T_B \in DOMAIN strategyUsed
    /\ strategyUsed[T_B] = "replace"
    /\ autoDetect(ToLowerCase(T_B)) = "yaml-merge"
    /\ ~Declares(GroupOf(T_B).sources[1])

\* C3: when a multi-source group is merged, a strategy name declared by a
\* contributing source is the strategy used; the auto-detected strategy is
\* used only when no contributing source declares a name.
C3_DeclaredAlwaysUsed ==
    \A t \in DOMAIN strategyUsed :
        LET sources == GroupOf(t).sources
        IN  IF \E i \in DOMAIN sources : Declares(sources[i])
            THEN \E i \in DOMAIN sources :
                    /\ Declares(sources[i])
                    /\ Registered(sources[i].metadata._mergeStrategy.s)
                    /\ strategyUsed[t] =
                            RegisteredAs(sources[i].metadata._mergeStrategy.s)
            ELSE strategyUsed[t] = autoDetect(ToLowerCase(t))

\* the file name of the path matches tsconfig*.json
IsTsconfigName(n) == StartsWith(n, <<"t", "s", "c", "o", "n", "f", "i", "g">>) /\ EndsWith(n, DOT_JSON)

\* C4: when no strategy is declared, the strategy chosen for an absolute
\* target path is the most specific match on the file name: tsconfig*.json
\* selects tsconfig, docker-compose* selects docker-compose,
\* pnpm-workspace.yaml and pnpm-workspace.yml select pnpm-workspace,
\* .gitlab-ci.yml selects gitlab-ci, and a file with an unrecognized
\* extension selects deep-merge.
C4_MostSpecificMatch ==
    res # << >> /\ arg.strategyName = Undefined =>
        LET n == PathBasename(arg.filePath)
        IN  /\ IsTsconfigName(n) => res[1] = "tsconfig"
            /\ StartsWith(n, DOCKER_COMPOSE) => res[1] = "docker-compose"
            /\ n \in {PNPM_WORKSPACE_YAML, PNPM_WORKSPACE_YML} =>
                    res[1] = "pnpm-workspace"
            /\ n = DOT_GITLAB_CI_YML => res[1] = "gitlab-ci"
            /\ n \in {N_TXT, N_MAKEFILE} => res[1] = "deep-merge"

\* the value at the key path of a JSON object, Absent where there is none
RECURSIVE ValueAt(_, _)
ValueAt(v, keys) ==
    IF keys = << >> THEN v
    ELSE IF v.t = "obj" /\ Head(keys) \in DOMAIN v.f
    THEN ValueAt(v.f[Head(keys)], Tail(keys))
    ELSE Absent

\* the key paths of the merges: top level, and inside a nested object
NullKeyPaths == {<<"k">>, <<"j">>, <<"compilerOptions", "strict">>}

\* C5: an override that sets a key to null deletes the key the template
\* defines: where the template gives the key a non-null value and the
\* override gives it null, the merge of [template, override] by the strategy
\* of the target is a result without that key, at top level and inside
\* nested objects.
C5_NullDeletesKey ==
    res # << >> =>
        \A keys \in NullKeyPaths :
            /\ ValueAt(arg.sources[1], keys) \notin {Absent, JNull}
            /\ ValueAt(arg.sources[2], keys) = JNull
            => /\ res[1] # MergeError
               /\ ValueAt(res[1], keys) = Absent

\* the file at p, when the run started, was a fragment whose _targetPath
\* holds a placeholder of a variable that the environment does not define
UnresolvedFragmentAt(p) ==
    /\ p \in {FRAG_X, FRAG_Y}
    /\ fsStart[p].kind = "file"
    /\ Has(fsStart[p].content, "_targetPath")
    /\ fsStart[p].content.f["_targetPath"] = JStr(TP_W)

\* C6: if the _targetPath of a fragment holds a {{NAME}} placeholder whose
\* variable the environment does not define, the run is aborted: apply()
\* never completes successfully with such a fragment left out.
C6_UnresolvedAborts ==
    pc = "done" => \A p \in SourcePaths : ~UnresolvedFragmentAt(p)

\* C7: a target that had sources in one run, so that a link or a generated
\* file exists there, and has no source left in the next run, has its
\* artifact removed by the next run.
C7_OrphanRemoved ==
    pc = "done" /\ ~opts.dryRun =>
        \A t \in prevGenerated : ~HasGroup(t) => fs[t].kind = "none"

\* the groups that the loop of apply() had not reached when the run ended
Remaining == {queue[i].targetPath : i \in 2..Len(queue)}

\* C8 (amended): if processing one target group fails, the failure leaves
\* apply(): the run is aborted at that group, the groups processed before it
\* stay processed, and no remaining group of the run is processed.
C8_FailureAbortsRun ==
    failedTargets # {} =>
        /\ pc = "failed"
        /\ failedTargets = {Head(queue).targetPath}
        /\ \A t \in Remaining : t \notin processed /\ fs[t] = fsStart[t]
        /\ \A i \in DOMAIN groups :
                groups[i].targetPath \notin Remaining \cup failedTargets
                    => groups[i].targetPath \in processed

\* C8 happens: the first group of a run failed while another group remained
C8_Witness ==
    /\ pc = "failed"
    /\ Len(groups) = 2
    /\ Len(queue) = 2
    /\ failedTargets = {groups[1].targetPath}

\* C8: if processing one target group fails, only that target's processing
\* is aborted: when the run has ended, every other group of the run has been
\* processed.
C8_RemainingProcessed ==
    RunEnded =>
        \A i \in DOMAIN groups :
            groups[i].targetPath \in processed \cup failedTargets

\* C9: with the dryRun option set, apply() creates, overwrites, links,
\* copies and removes nothing: throughout the run and after it the file
\* system equals the file system before it.
C9_DryRunChangesNothing ==
    InRun /\ opts.dryRun => fs = fsStart

\* C9 happens: a dry run has ended over a single-source group and a
\* multi-source group, with a regular file in the way of one of the targets
C9_Witness ==
    /\ pc = "done" /\ opts.dryRun
    /\ \E i \in DOMAIN groups : Len(groups[i].sources) = 1
    /\ \E i \in DOMAIN groups : Len(groups[i].sources) >= 2
    /\ \E t \in TargetPaths : fs[t].kind = "file"

\* the target matches one of the patterns: by its path relative to the
\* project root, or by its file name
MatchesFilter(t, patterns) ==
    \E i \in DOMAIN patterns :
        patterns[i] \in {PathRelative(projectRoot, t), PathBasename(t)}

\* C10: with filter patterns given, apply() processes only the targets that
\* match the patterns: a target that matches no pattern is neither written,
\* linked, copied nor removed by the run.
C10_OnlyMatchingTargets ==
    InRun /\ opts.filter # Undefined =>
        \A t \in TargetPaths :
            ~MatchesFilter(t, opts.filter.e) =>
                t \notin processed /\ fs[t] = fsStart[t]

\* C11: in watch mode every add, change and unlink event on a source file is
\* followed by an apply() run that starts at or after the event: whenever no
\* run is in progress, the sources are those that the discovery of the last
\* run has read, so no event is left without a regeneration that observes it.
C11_EveryEventObserved ==
    ~regenerating => \A p \in SourcePaths : fs[p] = fsStart[p]

\* position i of the text starts a placeholder {{NAME}} that ends at e
PlaceholderAt(s, i, e) ==
    /\ OccursAt(s, <<"{", "{">>, i)
    /\ e >= i + 4
    /\ OccursAt(s, <<"}", "}">>, e - 1)
    /\ \A j \in (i + 2)..(e - 2) : IsWordChar(s[j])

\* the name of the placeholder that starts at position i, << >> if none does
NameAt(s, i) ==
    IF \E e \in 1..Len(s) : PlaceholderAt(s, i, e)
    THEN LET e == CHOOSE e \in 1..Len(s) : PlaceholderAt(s, i, e)
         IN  SubSeq(s, i + 2, e - 2)
    ELSE << >>

\* the names of the placeholders of s that the environment does not define,
\* each once, in the order of their first occurrence, from position i on
RECURSIVE AbsentNamesFrom(_, _, _, _)
AbsentNamesFrom(s, environ, i, names) ==
    IF i > Len(s) THEN names
    ELSE AbsentNamesFrom(s, environ, i + 1,
            IF NameAt(s, i) # << >>
               /\ NameAt(s, i) \notin DOMAIN environ
               /\ \A k \in DOMAIN names : names[k] # NameAt(s, i)
            THEN Append(names, NameAt(s, i))
            ELSE names)

AbsentNames(s, environ) == AbsentNamesFrom(s, environ, 1, << >>)

\* C12: resolve(text) fails if and only if at least one placeholder of the
\* text names a variable absent from the environment, and the failure lists
\* exactly the absent names, each once, in the order of their first
\* occurrence in the text.
C12_FailsListingAbsentNames ==
    res # << >> =>
        /\ ~res[1].ok <=> AbsentNames(arg.template, arg.environ) # << >>
        /\ ~res[1].ok => res[1].missing = AbsentNames(arg.template, arg.environ)

\* C12 happens: resolve failed on a text with three placeholders, one of them
\* repeated, and listed the two absent names once each, the later name first
C12_Witness ==
    /\ res # << >>
    /\ ~res[1].ok
    /\ res[1].missing = <<VAR_W, VAR_V>>
    /\ arg.template = <<"{", "{", "W", "}", "}", "{", "{", "V", "}", "}",
                        "{", "{", "W", "}", "}">>

\* the text with every placeholder occurrence replaced by the value of its
\* variable, from position i on
RECURSIVE SubstitutedFrom(_, _, _)
SubstitutedFrom(s, environ, i) ==
    IF i > Len(s) THEN << >>
    ELSE IF NameAt(s, i) # << >>
    THEN environ[NameAt(s, i)]
            \o SubstitutedFrom(s, environ, i + Len(NameAt(s, i)) + 4)
    ELSE <<s[i]>> \o SubstitutedFrom(s, environ, i + 1)

\* C13: whenever resolve(text) returns instead of failing, every placeholder
\* occurrence of the text has been replaced by the environment value of its
\* variable, for every environment (values that hold placeholder-like text
\* included) and for texts that repeat a placeholder.
C13_AllOccurrencesSubstituted ==
    res # << >> /\ res[1].ok =>
        res[1].value = SubstitutedFrom(arg.template, arg.environ, 1)

\* the target paths of a discovered fragment
TargetsOf(fragment) ==
    IF fragment.metadata._targetPath.t = "arr"
    THEN fragment.metadata._targetPath.e
    ELSE <<fragment.metadata._targetPath>>

\* C14: every fragment returned by discoverFragments has at least one target
\* path and none of its target paths is empty, and no group of groupByTarget
\* holds a fragment that has an empty target path.
C14_FragmentsHaveTargets ==
    res # << >> =>
        /\ \A i \in DOMAIN res[1].fragments :
            /\ TargetsOf(res[1].fragments[i]) # << >>
            /\ \A k \in DOMAIN TargetsOf(res[1].fragments[i]) :
                /\ TargetsOf(res[1].fragments[i])[k].t = "str"
                /\ TargetsOf(res[1].fragments[i])[k].s # << >>
        /\ \A g \in DOMAIN res[1].groups : res[1].groups[g].targetPath # projectRoot

\* the path lies under the module tree <frameworkModulesDir>/
UnderModuleTree(fragmentPath) == StartsWith(fragmentPath, atomModulesDir \o SLASH)

\* the module that owns a fragment under the module tree: the path segment
\* right after the module root
OwningModule(fragmentPath) ==
    Head(SplitPath(PathRelative(atomModulesDir, fragmentPath)))

\* <modulesDir>/<name> exists, is a symbolic link, and its resolved target
\* equals <frameworkModulesDir>/<name>
LinkedModule(files, name) ==
    /\ PathJoin(modulesDir, name) \in DOMAIN files
    /\ files[PathJoin(modulesDir, name)].kind = "link"
    /\ PathResolve(modulesDir, files[PathJoin(modulesDir, name)].to)
            = PathJoin(atomModulesDir, name)
    /\ files[PathJoin(atomModulesDir, name)].kind # "none"

Kept(fragment) == \E i \in DOMAIN res[1] : res[1][i] = fragment

\* C15 (under the module tree): filterFragments keeps a fragment under the
\* module tree if and only if its _activeOnly is explicitly false or its
\* owning module is linked correctly; it returns the fragments in the
\* order given.
C15_ModuleFragmentKeptIffActive ==
    res # << >> =>
        /\ \A i \in DOMAIN arg.fragments :
            UnderModuleTree(arg.fragments[i].path) =>
                (Kept(arg.fragments[i]) <=>
                    \/ arg.fragments[i].metadata._activeOnly = JBool(FALSE)
                    \/ LinkedModule(arg.files, OwningModule(arg.fragments[i].path)))
        /\ \A i \in DOMAIN res[1] : \E k \in DOMAIN arg.fragments :
                res[1][i] = arg.fragments[k]

\* C15: filterFragments keeps a fragment if and only if its path is outside
\* the framework module tree, or its _activeOnly is explicitly false, or its
\* owning module is active.
C15_KeptIffOutsideOrActive ==
    res # << >> =>
        \A i \in DOMAIN arg.fragments :
            Kept(arg.fragments[i]) <=>
                \/ ~UnderModuleTree(arg.fragments[i].path)
                \/ arg.fragments[i].metadata._activeOnly = JBool(FALSE)
                \/ LinkedModule(arg.files, OwningModule(arg.fragments[i].path))

\* C16: for every registered strategy, merging a list that holds a single
\* valid content returns a value equal to that content: no key is added,
\* removed or changed.
C16_SingleSourceIdentity ==
    res # << >> => res[1] = arg.content

\* C17: deep merge is idempotent on its own output: when merge([a, b])
\* succeeds, merge([merge([a, b])]) equals merge([a, b]).
C17_DeepMergeIdempotent ==
    Len(res) = 2 => res[2] = res[1]

\* a deep merge of its own result has run on a result that differs from both
\* sources, after repeated array items and null-valued keys were dropped
C17_Witness ==
    /\ Len(res) = 2
    /\ arg[1] = JObj("k" :> JArr(<<JNum(1), JNum(1), JNum(2)>>))
    /\ arg[2] = JObj("j" :> JObj("a" :> JArr(<<JNum(1), JNum(1)>>) @@ "o" :> EmptyObj))
    /\ res[1] = JObj("k" :> JArr(<<JNum(1), JNum(2)>>)
                        @@ "j" :> JObj("a" :> JArr(<<JNum(1)>>) @@ "o" :> EmptyObj))

\* the lines of all sources, in the order of the sources
RECURSIVE LinesOfSources(_)
LinesOfSources(sources) ==
    IF sources = << >> THEN << >>
    ELSE SplitLines(Head(sources).s) \o LinesOfSources(Tail(sources))

\* the non-blank lines of a list of lines, each at its first appearance
FirstAppearances(lines) ==
    LET kept == {i \in DOMAIN lines :
                    /\ ~IsBlank(lines[i])
                    /\ \A j \in 1..(i - 1) : lines[j] # lines[i]}
        \* the k-th smallest position kept
        nth[k \in 1..Cardinality(kept)] ==
            CHOOSE i \in kept : Cardinality({j \in kept : j < i}) = k - 1
    IN  [k \in 1..Cardinality(kept) |-> lines[nth[k]]]

\* the lines of a text that ends with a newline
LinesOfText(text) == SplitLines(Sub(text, 1, Len(text) - 1))

EndsWithNewline(text) == Len(text) >= 1 /\ text[Len(text)] = NEWLINE

\* C18: append-lines returns a text that ends with a newline and whose lines
\* are the non-blank lines of all sources in first-appearance order, each
\* distinct line once: it holds no blank line and no duplicate.
C18_LinesOnceInOrder ==
    res # << >> =>
        /\ EndsWithNewline(res[1].s)
        /\ LinesOfText(res[1].s) = FirstAppearances(LinesOfSources(arg))
        /\ \A i \in DOMAIN LinesOfText(res[1].s) : ~IsBlank(LinesOfText(res[1].s)[i])

\* C18 (amended): as C18 when a source holds a non-blank line; when none
\* does, the result is a single newline.
C18_LinesOnceInOrderOrNewline ==
    res # << >> =>
        IF FirstAppearances(LinesOfSources(arg)) = << >>
        THEN res[1].s = <<NEWLINE>>
        ELSE /\ EndsWithNewline(res[1].s)
             /\ LinesOfText(res[1].s) = FirstAppearances(LinesOfSources(arg))
             /\ \A i \in DOMAIN LinesOfText(res[1].s) :
                    /\ ~IsBlank(LinesOfText(res[1].s)[i])
                    /\ \A j \in DOMAIN LinesOfText(res[1].s) :
                        LinesOfText(res[1].s)[i] = LinesOfText(res[1].s)[j] => i = j

\* two sources with blank lines and lines that repeat within a source and
\* across the sources have been merged
C18_Witness ==
    /\ res # << >>
    /\ arg = <<JStr(<<"a", "\n", "\n", "a">>), JStr(<<"b", "\n", "a", "\n", "b", "\n", "c">>)>>
    /\ res[1].s = <<"a", "\n", "b", "\n", "c", "\n">>

\* the sources that declare a version
Declaring(sources) == {i \in DOMAIN sources : Has(sources[i], "version")}

\* C19: Docker Compose merge takes the version of the result from the first
\* source that declares one; the default "3.8" appears only when no source
\* declares a version.
C19_VersionOfFirstDeclaring ==
    res # << >> =>
        Get(res[1], "version") =
            IF Declaring(arg) = {} THEN DEFAULT_COMPOSE_VERSION
            ELSE arg[CHOOSE i \in Declaring(arg) : \A j \in Declaring(arg) : i <= j].f.version

\* a source that holds at least three of the ten global keys
IsMaster(source) == Cardinality(DOMAIN source.content.f \cap GLOBAL_PROPERTIES) >= 3

\* the directory of a source relative to the project root; empty for a source
\* that lies in the project root itself
SourceDirectory(source) ==
    IF Includes(PathRelative(projectRoot, source.path), SLASH)
    THEN PathDirname(PathRelative(projectRoot, source.path))
    ELSE << >>

WithoutLeadingSegment(dir) ==
    IF StartsWith(dir, <<"p", "a", "c", "k", "a", "g", "e", "s", "/">>) THEN Sub(dir, 10, Len(dir))
    ELSE IF StartsWith(dir, <<"m", "o", "d", "u", "l", "e", "s", "/">>) THEN Sub(dir, 9, Len(dir))
    ELSE dir

\* the prefix of the jobs of a source: its directory without a leading
\* packages/ or modules/, the separators turned into colons
PrefixOf(source) ==
    ToKey([i \in DOMAIN WithoutLeadingSegment(SourceDirectory(source)) |->
            IF WithoutLeadingSegment(SourceDirectory(source))[i] = "/" THEN ":"
            ELSE WithoutLeadingSegment(SourceDirectory(source))[i]])

PrefixedName(source, job) ==
    IF IsMaster(source) THEN job ELSE PrefixOf(source) \o ":" \o job

\* as PrefixedName, but a source in the project root keeps its job names
PrefixedNameOrPlain(source, job) ==
    IF IsMaster(source) \/ SourceDirectory(source) = << >> THEN job
    ELSE PrefixOf(source) \o ":" \o job

JobsOf(source) == DOMAIN source.content.f \ GLOBAL_PROPERTIES

Masters == {i \in DOMAIN arg : IsMaster(arg[i])}

\* what the result holds of the global keys: they come from the master
\* sources only, and every global key of a master source is there
GlobalKeysFromMasters ==
    /\ \A g \in DOMAIN res[1].f \cap GLOBAL_PROPERTIES :
        \/ \E i \in Masters : g \in DOMAIN arg[i].content.f
        \/ /\ g = "stages" /\ res[1].f[g] = JArr(<< >>)
        \/ /\ g = "variables" /\ res[1].f[g] = EmptyObj
    /\ \A i \in Masters : \A g \in DOMAIN arg[i].content.f \cap GLOBAL_PROPERTIES :
        g \in DOMAIN res[1].f
    /\ \A x \in Range(res[1].f.stages.e) :
        \E i \in Masters : x \in Range(arg[i].content.f.stages.e)
    /\ \A i \in Masters : \A x \in Range(Get(arg[i].content, "stages").e) :
        x \in Range(res[1].f.stages.e)
    /\ \A v \in DOMAIN res[1].f.variables.f :
        \E i \in Masters :
            /\ v \in DOMAIN arg[i].content.f.variables.f
            /\ arg[i].content.f.variables.f[v] = res[1].f.variables.f[v]
            /\ \A j \in Masters : j > i => v \notin DOMAIN arg[j].content.f.variables.f

\* C20: GitLab CI merge: only sources holding at least three of the ten
\* global keys contribute global keys; every source contributes its
\* non-global keys as jobs; a job of a source with fewer than three global
\* keys is stored under '<prefix>:<job>', a job of a master source under its
\* own name.
C20_JobsPrefixed ==
    res # << >> =>
        /\ GlobalKeysFromMasters
        /\ \A i \in DOMAIN arg : \A job \in JobsOf(arg[i]) :
            PrefixedName(arg[i], job) \in DOMAIN res[1].f
        /\ \A name \in DOMAIN res[1].f \ GLOBAL_PROPERTIES :
            \E i \in DOMAIN arg : \E job \in JobsOf(arg[i]) :
                /\ PrefixedName(arg[i], job) = name
                /\ res[1].f[name] = arg[i].content.f[job]

\* C20 (amended): as C20, but the jobs of a source that lies in the project
\* root itself keep their names unprefixed.
C20_JobsPrefixedOutsideRoot ==
    res # << >> =>
        /\ GlobalKeysFromMasters
        /\ \A i \in DOMAIN arg : \A job \in JobsOf(arg[i]) :
            PrefixedNameOrPlain(arg[i], job) \in DOMAIN res[1].f
        /\ \A name \in DOMAIN res[1].f \ GLOBAL_PROPERTIES :
            \E i \in DOMAIN arg : \E job \in JobsOf(arg[i]) :
                /\ PrefixedNameOrPlain(arg[i], job) = name
                /\ res[1].f[name] = arg[i].content.f[job]
                /\ \A j \in DOMAIN arg : \A other \in JobsOf(arg[j]) :
                    (j > i /\ PrefixedNameOrPlain(arg[j], other) = name) =>
                        arg[j].content.f[other] = res[1].f[name]

\* the master template with the job build and the fragment of packages/api
\* with the job test have been merged into the jobs build and api:test
C20_Witness ==
    /\ res # << >>
    /\ Len(arg) = 2
    /\ IsMaster(arg[1]) /\ "build" \in JobsOf(arg[1])
    /\ ~IsMaster(arg[2]) /\ JobsOf(arg[2]) = {"test"}
    /\ SourceDirectory(arg[2]) = <<"p", "a", "c", "k", "a", "g", "e", "s", "/", "a", "p", "i">>
    /\ DOMAIN res[1].f \ GLOBAL_PROPERTIES = {"build", "api:test"}

\* C21: deep-merging [template, smartDiff(template, current)] (a null diff
\* meaning no override) yields a tree equal to current.
C21_DiffReproducesCurrent ==
    Len(res) = 2 => res[2] = arg[2]

\* the diff the rule of C26 gives for the object trees t and c
RECURSIVE RuleDiff(_, _)
RuleDiffKeys(t, c) ==
    {k \in DOMAIN c.f :
        \/ k \notin DOMAIN t.f
        \/ /\ k \in DOMAIN t.f
           /\ IF IsObj(t.f[k]) /\ IsObj(c.f[k])
              THEN RuleDiff(t.f[k], c.f[k]) # JNull
              ELSE t.f[k] # c.f[k]}

RuleDiff(t, c) ==
    IF RuleDiffKeys(t, c) = {} THEN JNull
    ELSE JObj([k \in RuleDiffKeys(t, c) |->
                IF k \in DOMAIN t.f /\ IsObj(t.f[k]) /\ IsObj(c.f[k])
                THEN RuleDiff(t.f[k], c.f[k]) ELSE c.f[k]])

\* C26: the smart diff of (template, current) contains key k if and only if
\* k is in current and either k is absent from template, or both values are
\* nested objects whose recursive diff is non-empty (the nested diff is
\* stored), or the values are not both nested objects and are not deeply
\* equal (current's value is stored); it is null when no key qualifies.
C26_SmartDiffRule ==
    Len(res) >= 1 => res[1] = RuleDiff(arg[1], arg[2])

\* the diff of template {a:1, b:{c:2}} and current {a:1, b:{c:3, d:4}} has
\* been computed and is {b:{c:3, d:4}}
C26_Witness ==
    /\ Len(res) >= 1
    /\ arg[1] = JObj("a" :> JNum(1) @@ "b" :> JObj("c" :> JNum(2)))
    /\ arg[2] = JObj("a" :> JNum(1) @@ "b" :> JObj("c" :> JNum(3) @@ "d" :> JNum(4)))
    /\ res[1] = JObj("b" :> JObj("c" :> JNum(3) @@ "d" :> JNum(4)))

\* C22: when a content of a multi-source group has the wrong type for the
\* selected strategy, the merge neither throws nor produces a merged result:
\* the content is reported as a validation failure.
C22_MistypedContentRejected ==
    (res # << >> /\ \E i \in DOMAIN arg.sources : ~ValidFor(arg.name, arg.sources[i])) =>
        /\ res[1] # MergeError
        /\ res[1].t \notin {"obj", "str"}

\* the files the backup of this run holds a copy of, with that content
InManifest(p, content) ==
    /\ res # << >>
    /\ \E i \in DOMAIN res[1].files :
        res[1].files[i].original = p /\ res[1].files[i].hash = content

\* C23: with backup enabled, no file that existed before extract has its
\* content replaced by extract without a copy of its prior content in the
\* backup manifest.
C23_OverwrittenFilesBackedUp ==
    (arg.backup /\ pc \in {"extracting", "done"}) =>
        \A p \in Paths :
            (fsStart[p].kind = "file" /\ fs[p] # fsStart[p]) =>
                InManifest(p, fsStart[p].content)

\* the source gives, at some depth, the value null to a key under which the
\* accumulated result holds a non-null value
RECURSIVE NullOverContent(_, _)
NullOverContent(acc, source) ==
    \E k \in DOMAIN source.f \cap DOMAIN acc.f :
        \/ source.f[k] = JNull /\ acc.f[k] # JNull
        \/ /\ IsObj(source.f[k]) /\ IsObj(acc.f[k])
           /\ NullOverContent(acc.f[k], source.f[k])

\* every key the source gives the value null, at any depth, is absent from
\* the result
RECURSIVE NullKeysAbsent(_, _)
NullKeysAbsent(result, source) ==
    \A k \in DOMAIN source.f :
        /\ source.f[k] = JNull => k \notin DOMAIN result.f
        /\ IsObj(source.f[k]) =>
            /\ k \in DOMAIN result.f
            /\ IsObj(result.f[k])
            /\ NullKeysAbsent(result.f[k], source.f[k])

C25_OrderIndependent ==
    Len(res) = 2 =>
        /\ res[1].f.tasks = res[2].f.tasks
        /\ res[1].f.inputs = res[2].f.inputs

\* the names n under <modulesDir> for which isModuleActive(n) holds
ActiveNames(files) ==
    {name \in ModuleNames :
        /\ files[PathJoin(modulesDir, name)].kind # "none"
        /\ isModuleActive(files, name)}

\* C27: every call of getActiveModules() returns the names n under
\* <modulesDir> with isModuleActive(n) as they were at the first call since
\* construction or the last clearCache(), whatever the links have become
\* since, also when that set is empty.
C27_CachedUntilCleared ==
    res # << >> => res[1] = ActiveNames(arg.computedOn)

\* a call returned the empty set it had cached although a module had become
\* active by then
C27_Witness ==
    /\ res # << >>
    /\ res[1] = {}
    /\ ActiveNames(res[2]) # {}
    /\ arg.computedOn # res[2]

\* a run of apply() is in progress
RunInProgress == pc \in {"starting", "running"}

\* an event of the watcher whose regenerate() starts a run
EventStartsRun ==
    /\ \E p \in WatchedPaths :
            \/ \E c \in Variants(p) : OnAdd(p, c) \/ OnChange(p, c)
            \/ OnUnlink(p)
    /\ ~regenerating
    /\ regenerating'
    /\ pc' = "starting"

\* C28: in watch mode no event starts a run of apply() while one is in
\* progress, whatever the order of the events and the steps of the run: the
\* flag is set exactly while a run has not been finished by regenerate(), a
\* run begins only from a state where none is in progress, and once a run
\* has ended, failed ones included, an event starts the next one.
C28_RunsSerialized ==
    /\ [](RunInProgress => regenerating)
    /\ [][pc' = "starting" => (pc = "starting" \/ (~RunInProgress /\ ~regenerating))]_vars
    /\ []((pc = "failed" /\ ~regenerating) => ENABLED EventStartsRun)

\* a run has failed and regenerate() has cleared its flag
C28_Witness == pc = "failed" /\ ~regenerating /\ failedTargets # {}

\* C29: whatever runs of apply() came before and however the sources and
\* their copy flags changed between them, a run leaves every template,
\* fragment and override file as it was when the run began: none is
\* rewritten, created or removed, by the merge or by the copy of a single
\* source.
C29_SourcesUntouched ==
    pc \in {"running", "done", "failed"} =>
        \A p \in SourcePaths : fs[p] = fsStart[p]

\* C30: the override path that OverrideCreator, FileManager and Migrator
\* derive for a target is matched by the pattern of override discovery and
\* getTargetPath maps it back to the target, also for a target without an
\* extension; and getTargetPath of an override file that discovery finds is
\* never the path of that override file.
C30_OverridePathRoundTrip ==
    /\ (Len(res) >= 1 /\ arg.by \in Derivations) => MatchesOverrideGlob(res[1])
    /\ (Len(res) = 2 /\ arg.by \in Derivations) => res[2] = arg.path
    /\ (Len(res) = 2 /\ MatchesOverrideGlob(res[1])) => res[2] # res[1]

====
